---- MODULE Spec2Model ----
(***************************************************************************)
(* State-machine model of the Dayflow HRMS backend (FastAPI + SQLAlchemy). *)
(* The store is the set of rows of each table; every request handler is    *)
(* one action that reads the store, writes it and records its response.    *)
(***************************************************************************)
EXTENDS Integers, Sequences, FiniteSets, TLC

VARIABLES
    users,          \* rows of table users
    profiles,       \* rows of table employee_profiles
    attendances,    \* rows of table attendances
    corrections,    \* rows of table attendance_correction_requests
    today,          \* the value date.today() returns
    sessions,       \* the requests in flight: what each has read so far
    settings,       \* rows of table user_settings
    activity_logs,  \* rows of table activity_logs
    salary_structures,  \* rows of table salary_structures
    pc,             \* the next call of the client that walks the API
    token,          \* the bearer token that client holds
    trail           \* the responses that client has got

vars == <<users, profiles, attendances, corrections, today, sessions,
          settings, activity_logs, salary_structures, pc, token, trail>>

\* The client that walks the API, as the requests of others leave it.
client == <<pc, token, trail>>

----------------------------------------------------------------------------
(* Bounds of the model *)

MaxDay == 2         \* calendar days 1..MaxDay
MaxTime == 2        \* instants 1..MaxTime that datetime.now() can return
MaxAtt == 2         \* attendance rows the table can hold
MaxReq == 1         \* correction-request rows the table can hold
MaxSessions == 2    \* requests in flight at the same time

Dates == 1..MaxDay
Times == 1..MaxTime
Slots == 1..MaxSessions

\* A slot with no request in flight.
Idle == [op |-> "idle"]

----------------------------------------------------------------------------
(* Values *)

\* A nullable column: None is the empty tuple, a value v is <<v>>.
None == << >>
Some(v) == <<v>>
Opt(S) == {None} \cup {Some(v) : v \in S}

UserRole == {"admin", "hr_officer", "employee"}
AttendanceStatus == {"present", "absent", "half_day", "leave"}
CorrectionRequestStatus == {"pending", "approved", "rejected"}

CommentTexts == {"Not valid"}

\* The next value of an autoincrement primary key.
MaxId(rows) ==
    IF rows = {} THEN 0
    ELSE LET r == CHOOSE x \in rows : \A y \in rows : y.id <= x.id
         IN  r.id
NextId(rows) == MaxId(rows) + 1

\* get_current_active_user_with_roles(roles): the caller passes the gate
\* when the caller's role is one of roles.
HasRole(u, roles) == u.role \in roles

Privileged == {"admin", "hr_officer"}

\* get_password_hash and verify_password of app.auth.security.
Hash(password) == <<"hashed", password>>
VerifyPassword(password, hashed) == hashed = Hash(password)

\* create_access_token(data={"sub": email}) and the resolution of a bearer
\* token to the active user it names (get_current_active_user): no user for
\* a missing token or an unknown subject.
AccessToken(email) == [sub |-> email]
CurrentUser(tok) ==
    IF tok = None THEN {}
    ELSE {u \in users : u.email = tok[1].sub /\ u.is_active}

\* What a handler does with a request: the response it returns (status code
\* and detail) and the attendance and correction tables it leaves committed.
Outcome(code, detail, att, corr) ==
    [code |-> code, detail |-> detail, attendances |-> att, corrections |-> corr]

----------------------------------------------------------------------------
(* Queries *)

\* db.query(EmployeeProfile).filter(EmployeeProfile.user_id == uid)
ProfilesOfUser(uid) == {p \in profiles : p.user_id = uid}

\* db.query(EmployeeProfile).filter(EmployeeProfile.id == pid)
ProfilesById(pid) == {p \in profiles : p.id = pid}

\* The query for today's row, were it to look only for rows without a check-in.
AttendanceForUnchecked(pid, d) ==
    {a \in attendances : /\ a.employee_profile_id = pid /\ a.date = d
                          /\ a.check_in_time = None}

\* db.query(Attendance).filter(employee_profile_id == pid, date == d)
AttendanceFor(pid, d) ==
    {a \in attendances : a.employee_profile_id = pid /\ a.date = d}

\* db.query(Attendance).filter(Attendance.id == aid)
AttendanceById(aid) == {a \in attendances : a.id = aid}

\* db.query(AttendanceCorrectionRequest).filter(id == rid)
CorrectionById(rid) == {r \in corrections : r.id = rid}

\* The store after the row old was changed into the row new.
Replace(rows, old, new) == (rows \ {old}) \cup {new}

----------------------------------------------------------------------------
(* Attendance handlers: app/api/attendance.py *)

\* The row check_in inserts when there is none for today.
NewCheckInRow(pid, d, t) ==
    [id |-> NextId(attendances), employee_profile_id |-> pid, date |-> d,
     check_in_time |-> Some(t), check_out_time |-> None,
     status |-> "present", notes |-> None]

\* check_in, were it to refuse only a row that is checked out.
CheckInRefusedIfCheckedOut(a) == a.check_out_time # None

\* Does check_in refuse the row a that it found?
CheckInRefused(a) == a.check_in_time # None

\* check_in, were it to leave the status of the row it found.
CheckInUpdateKeepsStatus(a, t) == [a EXCEPT !.check_in_time = Some(t)]

\* The row check_in leaves when it found the row a without a check-in.
CheckInUpdate(a, t) ==
    [a EXCEPT !.check_in_time = Some(t), !.status = "present"]

\* POST /attendance/check-in by the authenticated user u at instant t:
\* the outcomes it can have (.first() returns any one matching row).
CheckInOutcomes(u, t) ==
    IF ProfilesOfUser(u.id) = {}
    THEN {Outcome(404, "Employee profile not found for this user",
                  attendances, corrections)}
    ELSE UNION {
        LET existing == AttendanceFor(p.id, today) IN
        IF existing = {}
        THEN {Outcome(201, "",
                      attendances \cup {NewCheckInRow(p.id, today, t)},
                      corrections)}
        ELSE {IF CheckInRefused(a)
              THEN Outcome(400, "Already checked in for today",
                           attendances, corrections)
              ELSE Outcome(201, "",
                           Replace(attendances, a, CheckInUpdate(a, t)),
                           corrections) : a \in existing}
        : p \in ProfilesOfUser(u.id)}

\* Does check_out refuse the row a for want of a check-in?
NotCheckedIn(a) == a.check_in_time = None

\* check_out, were it to accept a row that is checked out already.
CheckOutNeverRefused(a) == FALSE

\* Does check_out refuse the row a because it is checked out already?
CheckOutRefused(a) == a.check_out_time # None

\* check_out, were it to mark the row present as check_in does.
CheckOutUpdateMarksPresent(a, t) ==
    [a EXCEPT !.check_out_time = Some(t), !.status = "present"]

\* The row check_out leaves.
CheckOutUpdate(a, t) == [a EXCEPT !.check_out_time = Some(t)]

\* POST /attendance/check-out by the authenticated user u at instant t.
CheckOutOutcomes(u, t) ==
    IF ProfilesOfUser(u.id) = {}
    THEN {Outcome(404, "Employee profile not found for this user",
                  attendances, corrections)}
    ELSE UNION {
        LET found == AttendanceFor(p.id, today) IN
        IF found = {}
        THEN {Outcome(400, "You have not checked in today",
                      attendances, corrections)}
        ELSE {IF NotCheckedIn(a)
              THEN Outcome(400, "You have not checked in today",
                           attendances, corrections)
              ELSE IF CheckOutRefused(a)
              THEN Outcome(400, "Already checked out for today",
                           attendances, corrections)
              ELSE Outcome(200, "",
                           Replace(attendances, a, CheckOutUpdate(a, t)),
                           corrections) : a \in found}
        : p \in ProfilesOfUser(u.id)}

\* The bodies of POST /attendance/manual (schema AttendanceManualCreate) the
\* model sends: a day marked absent or on leave, a half day with a check-in
\* only, a full day with both times (as tests/manual_api_runner.py sends),
\* and a check-out without a check-in, which the schema accepts as well.
ManualShapes ==
    {[check_in_time |-> None, check_out_time |-> None,
      status |-> "absent", notes |-> None],
     [check_in_time |-> None, check_out_time |-> None,
      status |-> "leave", notes |-> Some("Manual entry")],
     [check_in_time |-> Some(1), check_out_time |-> None,
      status |-> "half_day", notes |-> None],
     [check_in_time |-> Some(1), check_out_time |-> Some(MaxTime),
      status |-> "present", notes |-> Some("Manual entry")],
     [check_in_time |-> None, check_out_time |-> Some(MaxTime),
      status |-> "present", notes |-> None]}

ProfileIds == {p.id : p \in profiles}

\* employee_profile_id of a request body: an existing profile or a missing one.
ProfileIdArgs == ProfileIds \cup {NextId(profiles)}

ManualPayloads ==
    {[employee_profile_id |-> pid, date |-> d,
      check_in_time |-> sh.check_in_time, check_out_time |-> sh.check_out_time,
      status |-> sh.status, notes |-> sh.notes] :
     pid \in ProfileIdArgs, d \in Dates, sh \in ManualShapes}

\* The row manual entry stores for the body in, under primary key id.
ManualRow(id, in) ==
    [id |-> id, employee_profile_id |-> in.employee_profile_id, date |-> in.date,
     check_in_time |-> in.check_in_time, check_out_time |-> in.check_out_time,
     status |-> in.status, notes |-> in.notes]

\* Manual entry, were it to insert without looking for a row.
ManualInsertAlways(rows, in) == {rows \cup {ManualRow(NextId(rows), in)}}

\* The attendance tables manual entry can leave behind, from the table rows:
\* the row that .first() returns is overwritten, or a new row is inserted.
ManualUpsert(rows, in) ==
    LET found == {a \in rows : /\ a.employee_profile_id = in.employee_profile_id
                               /\ a.date = in.date}
    IN  IF found # {}
        THEN {Replace(rows, a, ManualRow(a.id, in)) : a \in found}
        ELSE {rows \cup {ManualRow(NextId(rows), in)}}

\* POST /attendance/manual with body in by the authenticated user u.
ManualOutcomes(u, in) ==
    IF ~HasRole(u, Privileged)
    THEN {Outcome(403, "Forbidden", attendances, corrections)}
    ELSE IF ProfilesById(in.employee_profile_id) = {}
    THEN {Outcome(404, "Employee profile not found", attendances, corrections)}
    ELSE {Outcome(200, "", rows, corrections) :
          rows \in ManualUpsert(attendances, in)}

----------------------------------------------------------------------------
(* Correction-request handlers: app/api/attendance_correction.py *)

\* The bodies of POST /attendance-correction/ the model sends: a missed
\* check-out (as tests/manual_api_runner.py sends), a missed check-in, both
\* times, and neither.
CorrectionShapes ==
    {[requested_check_in_time |-> None, requested_check_out_time |-> None],
     [requested_check_in_time |-> None,
      requested_check_out_time |-> Some(MaxTime)],
     [requested_check_in_time |-> Some(MaxTime),
      requested_check_out_time |-> None],
     [requested_check_in_time |-> Some(1),
      requested_check_out_time |-> Some(MaxTime)]}

\* attendance_id of a request body: an existing row or a missing one.
AttendanceIdArgs == {a.id : a \in attendances} \cup {NextId(attendances)}

CorrectionPayloads ==
    {[attendance_id |-> aid, reason |-> "Missed checkout",
      requested_check_in_time |-> sh.requested_check_in_time,
      requested_check_out_time |-> sh.requested_check_out_time] :
     aid \in AttendanceIdArgs, sh \in CorrectionShapes}

\* attendance.employee_profile.user_id
OwnerOf(a) ==
    LET p == CHOOSE q \in profiles : q.id = a.employee_profile_id
    IN  p.user_id

\* The ownership check, were it to let reviewers through as well.
MayRequestCorrectionOrReview(u, a) ==
    OwnerOf(a) = u.id \/ HasRole(u, Privileged)

\* May the user u ask for a correction of the attendance row a?
MayRequestCorrection(u, a) == OwnerOf(a) = u.id

\* The row create_attendance_correction_request inserts.
NewCorrectionRow(u, in) ==
    [id |-> NextId(corrections), attendance_id |-> in.attendance_id,
     requested_by_id |-> u.id, reason |-> in.reason,
     requested_check_in_time |-> in.requested_check_in_time,
     requested_check_out_time |-> in.requested_check_out_time,
     status |-> "pending", reviewed_by_id |-> None, reviewed_at |-> None,
     reviewer_comments |-> None]

\* POST /attendance-correction/ with body in by the authenticated user u.
CreateCorrectionOutcomes(u, in) ==
    IF AttendanceById(in.attendance_id) = {}
    THEN {Outcome(404, "Attendance record not found", attendances, corrections)}
    ELSE {IF ~MayRequestCorrection(u, a)
          THEN Outcome(403,
                   "Not authorized to request correction for this attendance record",
                   attendances, corrections)
          ELSE Outcome(201, "", attendances,
                       corrections \cup {NewCorrectionRow(u, in)})
          : a \in AttendanceById(in.attendance_id)}

\* request_id of a review call: an existing request or a missing one.
CorrectionIdArgs == {r.id : r \in corrections} \cup {NextId(corrections)}

\* The review guard, were it to turn away rejected requests only.
ReviewableUnlessRejected(r) == r.status # "rejected"

\* May approve / reject act on the request r?
Reviewable(r) == r.status = "pending"

\* Approval, were it to copy only the requested times that have a value.
ApplyCorrectionWhereSet(rows, r) ==
    {IF a.id = r.attendance_id
     THEN [a EXCEPT
             !.check_in_time = IF r.requested_check_in_time = None THEN @
                               ELSE r.requested_check_in_time,
             !.check_out_time = IF r.requested_check_out_time = None THEN @
                                ELSE r.requested_check_out_time]
     ELSE a : a \in rows}

\* The attendance table after approval copied the requested times of r.
ApplyCorrection(rows, r) ==
    {IF a.id = r.attendance_id
     THEN [a EXCEPT !.check_in_time = r.requested_check_in_time,
                    !.check_out_time = r.requested_check_out_time]
     ELSE a : a \in rows}

\* The request row approve leaves.
ApprovedRow(r, u, t) ==
    [r EXCEPT !.status = "approved", !.reviewed_by_id = Some(u.id),
              !.reviewed_at = Some(t)]

\* PUT /attendance-correction/{rid}/approve by the authenticated user u at t.
ApproveOutcomes(u, rid, t) ==
    IF ~HasRole(u, Privileged)
    THEN {Outcome(403, "Forbidden", attendances, corrections)}
    ELSE IF CorrectionById(rid) = {}
    THEN {Outcome(404, "Correction request not found", attendances, corrections)}
    ELSE {IF ~Reviewable(r)
          THEN Outcome(400, "Request is not pending", attendances, corrections)
          ELSE Outcome(200, "", ApplyCorrection(attendances, r),
                       Replace(corrections, r, ApprovedRow(r, u, t)))
          : r \in CorrectionById(rid)}

\* The bodies of PUT /attendance-correction/{rid}/reject
\* (schema AttendanceCorrectionRequestUpdate; its status field is not read).
RejectPayloads ==
    [status : {"rejected"}, reviewer_comments : Opt(CommentTexts)]

\* Rejection, were it to drop the reviewer's comments.
RejectedRowWithoutComments(r, u, t, in) ==
    [r EXCEPT !.status = "rejected", !.reviewed_by_id = Some(u.id),
              !.reviewed_at = Some(t)]

\* The request row reject leaves.
RejectedRow(r, u, t, in) ==
    [r EXCEPT !.status = "rejected", !.reviewed_by_id = Some(u.id),
              !.reviewed_at = Some(t),
              !.reviewer_comments = in.reviewer_comments]

\* PUT /attendance-correction/{rid}/reject with body in by u at instant t.
RejectOutcomes(u, rid, in, t) ==
    IF ~HasRole(u, Privileged)
    THEN {Outcome(403, "Forbidden", attendances, corrections)}
    ELSE IF CorrectionById(rid) = {}
    THEN {Outcome(404, "Correction request not found", attendances, corrections)}
    ELSE {IF ~Reviewable(r)
          THEN Outcome(400, "Request is not pending", attendances, corrections)
          ELSE Outcome(200, "", attendances,
                       Replace(corrections, r, RejectedRow(r, u, t, in)))
          : r \in CorrectionById(rid)}

----------------------------------------------------------------------------
(* The requests as steps of the system, each handled atomically *)

\* The tables become what the outcome o says, within the model's bounds.
Apply(o) ==
    /\ Cardinality(o.attendances) <= MaxAtt
    /\ Cardinality(o.corrections) <= MaxReq
    /\ attendances' = o.attendances
    /\ corrections' = o.corrections
    /\ UNCHANGED <<users, profiles, salary_structures, today, sessions, settings, activity_logs>>

Commit(o) == Apply(o) /\ UNCHANGED client

CheckIn(u) == \E t \in Times : \E o \in CheckInOutcomes(u, t) : Commit(o)

CheckOut(u) == \E t \in Times : \E o \in CheckOutOutcomes(u, t) : Commit(o)

ManualEntry(u, in) == \E o \in ManualOutcomes(u, in) : Commit(o)

CreateCorrection(u, in) == \E o \in CreateCorrectionOutcomes(u, in) : Commit(o)

Approve(u, rid) == \E t \in Times : \E o \in ApproveOutcomes(u, rid, t) : Commit(o)

Reject(u, rid, in) ==
    \E t \in Times : \E o \in RejectOutcomes(u, rid, in, t) : Commit(o)

\* The bodies the caller u sends to a privileged endpoint: a caller the role
\* gate turns away gets the same answer whatever the body, so one stands for all.
BodiesFrom(u, bodies) ==
    IF HasRole(u, Privileged) THEN bodies ELSE {CHOOSE b \in bodies : TRUE}

\* The calendar moves on to the next day.
NextDay ==
    /\ today < MaxDay
    /\ today' = today + 1
    /\ UNCHANGED <<users, profiles, salary_structures, attendances, corrections, sessions,
                   settings, activity_logs, client>>

SameDay(a, b) ==
    a.employee_profile_id = b.employee_profile_id /\ a.date = b.date

----------------------------------------------------------------------------
(* The specification *)

SeedUsers ==
    {[id |-> 1, email |-> "admin@example.com", role |-> "admin",
      is_active |-> TRUE, hashed_password |-> Hash("adminpassword")],
     [id |-> 2, email |-> "a@x.com", role |-> "employee",
      is_active |-> TRUE, hashed_password |-> Hash("password")],
     [id |-> 3, email |-> "b@x.com", role |-> "employee",
      is_active |-> TRUE, hashed_password |-> Hash("password")]}

\* The settings row UserSettings(user_id=uid) with the column defaults.
DefaultSettings(id, uid) ==
    [id |-> id, user_id |-> uid, receive_notifications |-> TRUE,
     theme |-> "light", language |-> "en"]

\* Every seeded user registered through the API and so has a settings row.
SeedSettings == {DefaultSettings(u.id, u.id) : u \in SeedUsers}

SeedProfiles ==
    {[id |-> 1, user_id |-> 2], [id |-> 2, user_id |-> 3]}

Init ==
    /\ users = SeedUsers
    /\ profiles = SeedProfiles
    /\ attendances = {}
    /\ corrections = {}
    /\ today = 1
    /\ sessions = [s \in Slots |-> Idle]
    /\ settings = SeedSettings
    /\ activity_logs = {}
    /\ salary_structures = {}
    /\ pc = "off"
    /\ token = None
    /\ trail = << >>

Next ==
    \/ \E u \in users : CheckIn(u)
    \/ \E u \in users : CheckOut(u)
    \/ \E u \in users : \E in \in BodiesFrom(u, ManualPayloads) : ManualEntry(u, in)
    \/ \E u \in users, in \in CorrectionPayloads : CreateCorrection(u, in)
    \/ \E u \in users, rid \in CorrectionIdArgs : Approve(u, rid)
    \/ \E u \in users, rid \in CorrectionIdArgs :
          \E in \in BodiesFrom(u, RejectPayloads) : Reject(u, rid, in)
    \/ NextDay

Spec == Init /\ [][Next]_vars

\* A company with one employee profile: user 3 has registered but has no
\* profile (nothing in the API creates one).
SoloProfiles == {[id |-> 1, user_id |-> 2]}

InitSolo ==
    /\ users = SeedUsers
    /\ profiles = SoloProfiles
    /\ attendances = {}
    /\ corrections = {}
    /\ today = 1
    /\ sessions = [s \in Slots |-> Idle]
    /\ settings = SeedSettings
    /\ activity_logs = {}
    /\ salary_structures = {}
    /\ pc = "off"
    /\ token = None
    /\ trail = << >>

SpecSolo == InitSolo /\ [][Next]_vars

----------------------------------------------------------------------------
(* Requests served concurrently: each handler runs in its own database      *)
(* session (app/database.py get_db), reads, and commits later; between the  *)
(* read and the commit other requests read and commit.                      *)

\* The INSERT of a commit: the table takes the row under a fresh primary key.
\* Table attendances declares a primary key and no other unique constraint,
\* so the row is accepted whatever rows are there.
InsertRow(rows, row) == rows \cup {[row EXCEPT !.id = NextId(rows)]}

\* check_in up to its read (lines 20-33): the profile, the day and the row
\* for today are read; a row with a check-in ends the request with 400.
\* The session keeps the primary key of the row it read.
BeginCheckIn(s, u) ==
    /\ sessions[s] = Idle
    /\ u \in users
    /\ \E p \in ProfilesOfUser(u.id) :
          LET existing == AttendanceFor(p.id, today) IN
          \E found \in (IF existing = {} THEN {None}
                        ELSE {Some(a.id) : a \in {x \in existing : ~CheckInRefused(x)}}) :
             sessions' = [sessions EXCEPT ![s] =
                 [op |-> "check_in", pid |-> p.id, day |-> today,
                  found |-> found]]
    /\ UNCHANGED <<users, profiles, salary_structures, attendances, corrections, today,
                   settings, activity_logs, client>>

\* check_in from its write to its commit (lines 35-54): the row read is
\* updated by primary key, or a new row is inserted.
CommitCheckIn(s) ==
    /\ sessions[s].op = "check_in"
    /\ \E t \in Times :
          IF sessions[s].found = None
          THEN /\ Cardinality(attendances) < MaxAtt
               /\ attendances' = InsertRow(attendances,
                      NewCheckInRow(sessions[s].pid, sessions[s].day, t))
          ELSE attendances' =
                  {IF a.id = sessions[s].found[1]
                   THEN CheckInUpdate(a, t) ELSE a : a \in attendances}
    /\ sessions' = [sessions EXCEPT ![s] = Idle]
    /\ UNCHANGED <<users, profiles, salary_structures, corrections, today,
                   settings, activity_logs, client>>

\* manual_attendance_entry up to its read (lines 164-171), by a reviewer.
BeginManual(s, u, in) ==
    /\ sessions[s] = Idle
    /\ u \in users
    /\ HasRole(u, Privileged)
    /\ ProfilesById(in.employee_profile_id) # {}
    /\ LET existing == AttendanceFor(in.employee_profile_id, in.date) IN
       \E found \in (IF existing = {} THEN {None}
                     ELSE {Some(a.id) : a \in existing}) :
          sessions' = [sessions EXCEPT ![s] =
              [op |-> "manual", in |-> in, found |-> found]]
    /\ UNCHANGED <<users, profiles, salary_structures, attendances, corrections, today,
                   settings, activity_logs, client>>

\* manual_attendance_entry from its write to its commit (lines 173-186).
CommitManual(s) ==
    /\ sessions[s].op = "manual"
    /\ IF sessions[s].found = None
       THEN /\ Cardinality(attendances) < MaxAtt
            /\ attendances' = InsertRow(attendances, ManualRow(0, sessions[s].in))
       ELSE attendances' =
               {IF a.id = sessions[s].found[1]
                THEN ManualRow(a.id, sessions[s].in) ELSE a : a \in attendances}
    /\ sessions' = [sessions EXCEPT ![s] = Idle]
    /\ UNCHANGED <<users, profiles, salary_structures, corrections, today,
                   settings, activity_logs, client>>

\* The bodies of the manual entries that race with a check-in: for today.
TodayPayloads == {in \in ManualPayloads : in.date = today}

NextConc ==
    \/ \E s \in Slots, u \in users : BeginCheckIn(s, u)
    \/ \E s \in Slots : CommitCheckIn(s)
    \/ \E s \in Slots, u \in users, in \in TodayPayloads : BeginManual(s, u, in)
    \/ \E s \in Slots : CommitManual(s)
    \/ NextDay

SpecConc == InitSolo /\ [][NextConc]_vars

\* C2: when check-ins, or a check-in and a manual entry, for one employee and
\* day have all read before any of them commits, at most one attendance row
\* for that employee and day exists once they have all committed.
C2_RacingInsertsLeaveOneRow ==
    (\A s \in Slots : sessions[s] = Idle)
    => \A a \in attendances, b \in attendances : SameDay(a, b) => a.id = b.id

----------------------------------------------------------------------------
(* Authentication handlers: app/api/auth.py *)

\* What an authentication handler does with a request: the response and the
\* users, settings and activity-log tables it leaves committed.
AuthOutcome(code, detail, us, st, logs, tok) ==
    [code |-> code, detail |-> detail, users |-> us, settings |-> st,
     activity_logs |-> logs, token |-> tok]

\* log_activity (app/services/activity_service.py): the log with one row more.
LogActivity(logs, uid, action, details) ==
    logs \cup {[id |-> NextId(logs), user_id |-> uid, action |-> action,
                details |-> details]}

\* The row register_user inserts for the body in.
NewUserRow(in) ==
    [id |-> NextId(users), email |-> in.email, role |-> in.role,
     is_active |-> in.is_active, hashed_password |-> Hash(in.password)]

\* The lookup by email, were it to see active users only.
UsersByEmailActive(email) == {u \in users : u.email = email /\ u.is_active}

\* db.query(User).filter(User.email == email)
UsersByEmail(email) == {u \in users : u.email = email}

\* POST /auth/register with body in (schema UserCreate).
RegisterOutcome(in) ==
    IF UsersByEmail(in.email) # {}
    THEN AuthOutcome(400, "Email already registered",
                     users, settings, activity_logs, None)
    ELSE LET row == NewUserRow(in) IN
         AuthOutcome(201, "", users \cup {row},
                     settings \cup {DefaultSettings(NextId(settings), row.id)},
                     LogActivity(activity_logs, row.id, "User registration",
                                 row.email),
                     None)

\* The lookup of authenticate_user, were the password not verified.
AuthenticateByEmail(email, password) == {u \in users : u.email = email}

\* authenticate_user: the users the credentials name.
AuthenticateUser(email, password) ==
    {u \in users : u.email = email /\ VerifyPassword(password, u.hashed_password)}

\* POST /auth/login with the form (username, password).
LoginOutcomes(email, password) ==
    IF AuthenticateUser(email, password) = {}
    THEN {AuthOutcome(401, "Incorrect email or password",
                      users, settings, activity_logs, None)}
    ELSE {AuthOutcome(200, "", users, settings,
                      LogActivity(activity_logs, u.id, "User login", u.email),
                      Some(AccessToken(u.email)))
          : u \in AuthenticateUser(email, password)}

\* The tables become what the authentication outcome o says.
ApplyAuth(o) ==
    /\ users' = o.users
    /\ settings' = o.settings
    /\ activity_logs' = o.activity_logs
    /\ UNCHANGED <<profiles, salary_structures, attendances, corrections, today, sessions>>

----------------------------------------------------------------------------
(* A client that walks the API as a new user: register, login, check-in,   *)
(* check-out, check-out again, all on one day, while the seeded employees  *)
(* check in and out.                                                       *)

\* The bodies the new user registers with.
NewUserBodies ==
    [email : {"alice@x.com"}, password : {"secret"}, role : UserRole,
     is_active : {TRUE}]

Answer(o) == [code |-> o.code, detail |-> o.detail]

WalkStart ==
    /\ pc = "off"
    /\ pc' = "register"
    /\ UNCHANGED <<users, profiles, salary_structures, attendances, corrections, today, sessions,
                   settings, activity_logs, token, trail>>

WalkRegister ==
    /\ pc = "register"
    /\ \E in \in NewUserBodies :
          LET o == RegisterOutcome(in) IN
          /\ ApplyAuth(o)
          /\ trail' = Append(trail, Answer(o))
    /\ pc' = "login"
    /\ UNCHANGED token

WalkLogin ==
    /\ pc = "login"
    /\ \E o \in LoginOutcomes("alice@x.com", "secret") :
          /\ ApplyAuth(o)
          /\ token' = o.token
          /\ trail' = Append(trail, Answer(o))
    /\ pc' = "check_in"

\* The answer to a call that carries a token no active user is behind.
Unauthorized == [code |-> 401, detail |-> "Could not validate credentials"]

\* A call of the client to the attendance endpoint op.
WalkCall(at, then, op) ==
    /\ pc = at
    /\ pc' = then
    /\ UNCHANGED token
    /\ IF CurrentUser(token) = {}
       THEN /\ trail' = Append(trail, Unauthorized)
            /\ UNCHANGED <<users, profiles, salary_structures, attendances, corrections, today,
                           sessions, settings, activity_logs>>
       ELSE \E u \in CurrentUser(token), t \in Times :
            \E o \in (IF op = "check_in" THEN CheckInOutcomes(u, t)
                      ELSE CheckOutOutcomes(u, t)) :
               /\ Apply(o)
               /\ trail' = Append(trail, Answer(o))

WalkCheckIn == WalkCall("check_in", "check_out", "check_in")

WalkCheckOut == WalkCall("check_out", "check_out_again", "check_out")

WalkCheckOutAgain == WalkCall("check_out_again", "done", "check_out")

NextWalk ==
    \/ WalkStart
    \/ WalkRegister
    \/ WalkLogin
    \/ WalkCheckIn
    \/ WalkCheckOut
    \/ WalkCheckOutAgain
    \/ \E u \in SeedUsers : CheckIn(u)
    \/ \E u \in SeedUsers : CheckOut(u)

SpecWalk == Init /\ [][NextWalk]_vars

\* C7: a new user who registers, logs in, checks in, checks out and checks
\* out again on the same day gets 201, 200, 201, 200 and then 400 "Already
\* checked out for today".
C7_RegisterToSecondCheckOut ==
    pc = "done"
    => /\ [i \in 1..Len(trail) |-> trail[i].code] = <<201, 200, 201, 200, 400>>
       /\ trail[5].detail = "Already checked out for today"

----------------------------------------------------------------------------
(* Properties of the attendance lifecycle *)

\* Does the outcome o leave both tables as they are?
NoWrite(o) == o.attendances = attendances /\ o.corrections = corrections

\* C1: in every state reached by atomically handled check-in, check-out,
\* manual-entry and correction requests, no two attendance rows are for the
\* same employee profile and date.
C1_OneRecordPerEmployeeDay ==
    \A a \in attendances, b \in attendances : SameDay(a, b) => a = b

\* Two rows of one employee exist, and a correction has been approved.
C1_Witness ==
    /\ \E a \in attendances, b \in attendances :
          a # b /\ a.employee_profile_id = b.employee_profile_id
    /\ \E r \in corrections : r.status = "approved"

\* C3: every attendance row that has a check-out time has a check-in time.
C3_CheckOutOnlyAfterCheckIn ==
    \A a \in attendances : a.check_out_time # None => a.check_in_time # None

\* C4: a check-in by an employee whose row for today has a check-in time is
\* answered 400 "Already checked in for today" and writes nothing.
C4_SecondCheckInConflict ==
    \A u \in users, t \in Times :
        \A p \in ProfilesOfUser(u.id) :
            (\E a \in AttendanceFor(p.id, today) : a.check_in_time # None)
            => \A o \in CheckInOutcomes(u, t) :
                  /\ o.code = 400
                  /\ o.detail = "Already checked in for today"
                  /\ NoWrite(o)

\* An employee has checked in today, on a row no manual entry wrote.
C4_Witness ==
    \E a \in attendances :
        /\ a.date = today /\ a.check_in_time # None
        /\ a.check_out_time = None /\ a.status = "present" /\ a.notes = None

\* C5: check-out is answered 400 when today's row is missing or has no
\* check-in time, and when it has a check-out time already; otherwise it
\* sets the check-out time and leaves every other column of the row, and
\* every other row, as it was.
C5_CheckOut ==
    \A u \in users, t \in Times :
        \A p \in ProfilesOfUser(u.id) :
            LET found == AttendanceFor(p.id, today) IN
            \A o \in CheckOutOutcomes(u, t) :
                /\ (found = {} \/ \E a \in found : a.check_in_time = None)
                   => /\ o.code = 400
                      /\ o.detail = "You have not checked in today"
                      /\ NoWrite(o)
                /\ (\E a \in found : a.check_in_time # None /\ a.check_out_time # None)
                   => /\ o.code = 400
                      /\ o.detail = "Already checked out for today"
                      /\ NoWrite(o)
                /\ \A a \in found :
                      (a.check_in_time # None /\ a.check_out_time = None)
                      => /\ o.code = 200
                         /\ o.corrections = corrections
                         /\ o.attendances =
                               (attendances \ {a}) \cup
                               {[id |-> a.id,
                                 employee_profile_id |-> a.employee_profile_id,
                                 date |-> a.date,
                                 check_in_time |-> a.check_in_time,
                                 check_out_time |-> Some(t),
                                 status |-> a.status, notes |-> a.notes]}

\* Today's row of an employee is checked in and out but is not "present": a
\* check-out has left the status of a half day alone.
C5_Witness ==
    \E a \in attendances :
        /\ a.date = today /\ a.status = "half_day"
        /\ a.check_in_time # None /\ a.check_out_time = Some(MaxTime)

\* C6: check-in on a row for today without a check-in time sets that row's
\* check-in time and makes it present, and adds no row; check-in without a
\* row for today adds exactly one row, present and checked in.
C6_CheckInUpsert ==
    \A u \in users, t \in Times :
        \A p \in ProfilesOfUser(u.id) :
            LET found == AttendanceFor(p.id, today) IN
            \A o \in CheckInOutcomes(u, t) :
                /\ \A a \in found :
                      a.check_in_time = None
                      => /\ o.code = 201
                         /\ o.attendances =
                               (attendances \ {a}) \cup
                               {[id |-> a.id,
                                 employee_profile_id |-> a.employee_profile_id,
                                 date |-> a.date,
                                 check_in_time |-> Some(t),
                                 check_out_time |-> a.check_out_time,
                                 status |-> "present", notes |-> a.notes]}
                /\ found = {}
                   => /\ o.code = 201
                      /\ attendances \subseteq o.attendances
                      /\ \E n \in o.attendances \ attendances :
                            /\ o.attendances = attendances \cup {n}
                            /\ n.employee_profile_id = p.id /\ n.date = today
                            /\ n.check_in_time = Some(t)
                            /\ n.check_out_time = None
                            /\ n.status = "present"
                            /\ \A a \in attendances : a.id # n.id

\* A row marked as leave by manual entry has been checked in on: it is
\* present, keeps its note, and has no check-out.
C6_Witness ==
    \E a \in attendances :
        /\ a.status = "present" /\ a.notes = Some("Manual entry")
        /\ a.check_in_time # None /\ a.check_out_time = None
        /\ corrections = {}

\* C8: manual entry is idempotent: sending the same body a second time
\* leaves the attendance table as the first call left it.
C8_ManualEntryIdempotent ==
    \A u \in users, in \in ManualPayloads :
        (HasRole(u, Privileged) /\ ProfilesById(in.employee_profile_id) # {})
        => \A o \in ManualOutcomes(u, in) :
              /\ o.code = 200
              /\ ManualUpsert(o.attendances, in) = {o.attendances}

\* Manual entry has written two rows.
C8_Witness ==
    \E a \in attendances, b \in attendances :
        /\ a # b
        /\ a.notes = Some("Manual entry") /\ b.status = "absent"

\* Does the outcome o keep every check-in and check-out time that is set?
KeepsSetTimes(o) ==
    \A a \in attendances :
        \E b \in o.attendances :
            /\ b.id = a.id
            /\ a.check_in_time # None => b.check_in_time = a.check_in_time
            /\ a.check_out_time # None => b.check_out_time = a.check_out_time

\* Check-in, check-out, correction create and correction reject keep them.
LifecycleKeepsSetTimes ==
    /\ \A u \in users, t \in Times :
          /\ \A o \in CheckInOutcomes(u, t) : KeepsSetTimes(o)
          /\ \A o \in CheckOutOutcomes(u, t) : KeepsSetTimes(o)
          /\ \A rid \in CorrectionIdArgs, in \in RejectPayloads :
                \A o \in RejectOutcomes(u, rid, in, t) : KeepsSetTimes(o)
    /\ \A u \in users, in \in CorrectionPayloads :
          \A o \in CreateCorrectionOutcomes(u, in) : KeepsSetTimes(o)

\* C9 (as claimed): no request other than manual entry changes a check-in or
\* check-out time that has a value; correction approval is among the others.
C9_OnlyManualRewritesTimes ==
    /\ LifecycleKeepsSetTimes
    /\ \A u \in users, t \in Times, rid \in CorrectionIdArgs :
          \A o \in ApproveOutcomes(u, rid, t) : KeepsSetTimes(o)

\* C9 (amended): check-in, check-out, correction create and correction reject
\* never change a check-in or check-out time that has a value; manual entry
\* and correction approval are the transitions that can.
C9_OnlyManualAndApprovalRewriteTimes == LifecycleKeepsSetTimes

\* A row has both times set while a request against it is pending.
C9_Witness ==
    \E a \in attendances, r \in corrections :
        /\ r.attendance_id = a.id /\ r.status = "pending"
        /\ a.check_in_time # None /\ a.check_out_time # None

\* C10: approved and rejected are terminal: a reviewer's approve or reject
\* of a request that is not pending is answered 400 "Request is not pending"
\* and writes nothing, neither to the request nor to the attendance table.
C10_ReviewedIsTerminal ==
    \A u \in users, r \in corrections, t \in Times :
        (HasRole(u, Privileged) /\ r.status # "pending")
        => /\ \A o \in ApproveOutcomes(u, r.id, t) :
                 o.code = 400 /\ o.detail = "Request is not pending" /\ NoWrite(o)
           /\ \A in \in RejectPayloads :
                 \A o \in RejectOutcomes(u, r.id, in, t) :
                    o.code = 400 /\ o.detail = "Request is not pending" /\ NoWrite(o)

\* A request has been approved and has changed its target row.
C10_Witness ==
    \E r \in corrections, a \in attendances :
        /\ r.status = "approved" /\ r.attendance_id = a.id
        /\ a.check_in_time = r.requested_check_in_time
        /\ a.check_out_time = r.requested_check_out_time
        /\ a.check_out_time # None

----------------------------------------------------------------------------
(* Properties of the correction-request handlers *)

\* The callers a request can come from: any user, whatever role it holds.
Callers == {[u EXCEPT !.role = role] : u \in users, role \in UserRole}

\* C11: a reviewer's approval of a pending request is answered 200, makes the
\* request approved with the reviewer's id and the time of the review and
\* changes nothing else of it, and leaves the target attendance row with
\* exactly the requested check-in and check-out times.
C11_ApproveCopiesRequestedTimes ==
    \A u \in users, r \in corrections, t \in Times :
        (HasRole(u, Privileged) /\ r.status = "pending")
        => \A o \in ApproveOutcomes(u, r.id, t) :
              /\ o.code = 200
              /\ \E n \in o.corrections :
                    /\ o.corrections = (corrections \ {r}) \cup {n}
                    /\ n.id = r.id /\ n.status = "approved"
                    /\ n.reviewed_by_id = Some(u.id)
                    /\ n.reviewed_at = Some(t)
                    /\ n.attendance_id = r.attendance_id
                    /\ n.requested_check_in_time = r.requested_check_in_time
                    /\ n.requested_check_out_time = r.requested_check_out_time
              /\ \A a \in attendances :
                    a.id = r.attendance_id
                    => \E b \in o.attendances :
                          /\ b.id = a.id
                          /\ b.check_in_time = r.requested_check_in_time
                          /\ b.check_out_time = r.requested_check_out_time

\* An approval by user 1 has taken both times off a row that is present.
C11_Witness ==
    \E r \in corrections, a \in attendances :
        /\ r.status = "approved" /\ r.attendance_id = a.id
        /\ r.reviewed_by_id = Some(1) /\ r.reviewed_at # None
        /\ r.requested_check_in_time = None /\ r.requested_check_out_time = None
        /\ a.check_in_time = None /\ a.check_out_time = None
        /\ a.status = "present"

\* C12: a reviewer's rejection of a pending request is answered 200, makes
\* the request rejected with the comments of the body, the reviewer's id and
\* the time of the review, and leaves the attendance table as it was.
C12_RejectLeavesAttendance ==
    \A u \in users, r \in corrections, t \in Times, in \in RejectPayloads :
        (HasRole(u, Privileged) /\ r.status = "pending")
        => \A o \in RejectOutcomes(u, r.id, in, t) :
              /\ o.code = 200
              /\ o.attendances = attendances
              /\ \E n \in o.corrections :
                    /\ o.corrections = (corrections \ {r}) \cup {n}
                    /\ n.id = r.id /\ n.status = "rejected"
                    /\ n.reviewer_comments = in.reviewer_comments
                    /\ n.reviewed_by_id = Some(u.id)
                    /\ n.reviewed_at = Some(t)

\* A request for a check-out time has been rejected with a comment, and its
\* target row still has no check-out.
C12_Witness ==
    \E r \in corrections, a \in attendances :
        /\ r.status = "rejected" /\ r.attendance_id = a.id
        /\ r.reviewer_comments = Some("Not valid")
        /\ r.reviewed_by_id = Some(1) /\ r.reviewed_at # None
        /\ r.requested_check_out_time # None
        /\ a.check_in_time # None /\ a.check_out_time = None

\* C13: for an attendance row that exists, a caller of any role who is not
\* the user of the row's employee profile is answered 403 and nothing is
\* stored; the owner is answered 201 whatever the row holds, and exactly one
\* request is added, pending, with requested_by_id the caller's id.
C13_OnlyOwnerCreates ==
    \A u \in Callers, in \in CorrectionPayloads :
        \A a \in attendances :
            a.id = in.attendance_id
            => \A o \in CreateCorrectionOutcomes(u, in) :
                  IF \E p \in profiles :
                        p.id = a.employee_profile_id /\ p.user_id = u.id
                  THEN /\ o.code = 201
                       /\ o.attendances = attendances
                       /\ \E n \in o.corrections \ corrections :
                             /\ o.corrections = corrections \cup {n}
                             /\ n.status = "pending"
                             /\ n.requested_by_id = u.id
                             /\ n.attendance_id = a.id
                             /\ n.reviewed_by_id = None
                  ELSE /\ o.code = 403
                       /\ NoWrite(o)

\* The owner's request against a row marked absent, without times, is pending.
C13_Witness ==
    \E r \in corrections, a \in attendances, p \in profiles :
        /\ r.attendance_id = a.id /\ r.status = "pending"
        /\ p.id = a.employee_profile_id /\ r.requested_by_id = p.user_id
        /\ a.status = "absent" /\ a.check_in_time = None

----------------------------------------------------------------------------
(* Salary: app/services/salary_service.py and app/api/salary.py.  A Decimal *)
(* amount is an integer here: Decimal addition and subtraction are exact.   *)

\* The six components of the gross salary and the two deductions.
Earnings ==
    {"basic_salary", "hra", "standard_allowance", "performance_bonus", "lta",
     "fixed_allowance"}
Deductions == {"professional_tax", "pf_contribution"}

\* The sum of the amounts row[f] for f in fields, all of which have a value.
RECURSIVE SumOf(_, _)
SumOf(row, fields) ==
    IF fields = {} THEN 0
    ELSE LET f == CHOOSE x \in fields : TRUE
         IN  row[f][1] + SumOf(row, fields \ {f})

\* calculate_net_salary, were it to leave the leave travel allowance out.
calculate_net_salary_without_lta(ss) ==
    IF \E f \in Earnings \cup Deductions : ss[f] = None
    THEN [raised |-> Some("TypeError"), gross_salary |-> None,
          total_deductions |-> None, net_salary |-> None]
    ELSE LET gross_salary == SumOf(ss, Earnings \ {"lta"})
             total_deductions == SumOf(ss, Deductions)
         IN  [raised |-> None, gross_salary |-> Some(gross_salary),
              total_deductions |-> Some(total_deductions),
              net_salary |-> Some(gross_salary - total_deductions)]

\* calculate_net_salary(salary_structure): the dictionary it returns, or the
\* TypeError that adding a column that is NULL (None) raises.
calculate_net_salary(ss) ==
    IF \E f \in Earnings \cup Deductions : ss[f] = None
    THEN [raised |-> Some("TypeError"), gross_salary |-> None,
          total_deductions |-> None, net_salary |-> None]
    ELSE LET gross_salary == SumOf(ss, Earnings)
             total_deductions == SumOf(ss, Deductions)
         IN  [raised |-> None, gross_salary |-> Some(gross_salary),
              total_deductions |-> Some(total_deductions),
              net_salary |-> Some(gross_salary - total_deductions)]

\* The bodies of POST /salary/structure (schema SalaryStructureCreate) the
\* model sends for the profile pid: the structure tests/manual_api_runner.py
\* sends, and a basic salary alone, the rest taking the schema's default 0.
SalaryShapes ==
    {[basic_salary |-> Some(50000), hra |-> Some(10000),
      standard_allowance |-> Some(5000), performance_bonus |-> Some(2000),
      lta |-> Some(1000), fixed_allowance |-> Some(3000),
      professional_tax |-> Some(200), pf_contribution |-> Some(1500)],
     [basic_salary |-> Some(30000), hra |-> Some(0),
      standard_allowance |-> Some(0), performance_bonus |-> Some(0),
      lta |-> Some(0), fixed_allowance |-> Some(0),
      professional_tax |-> Some(0), pf_contribution |-> Some(0)]}

SalaryPayloads ==
    {[f \in DOMAIN sh \cup {"employee_profile_id"} |->
         IF f = "employee_profile_id" THEN pid ELSE sh[f]] :
     pid \in ProfileIdArgs, sh \in SalaryShapes}

\* The JSON bodies of PUT /salary/structure/{id} the model sends: the keys
\* that are present and their values, null (None) among them.  The fourth
\* names another employee as well.
SalaryUpdateBodies ==
    {[performance_bonus |-> Some(3000)],
     [hra |-> None],
     [basic_salary |-> Some(60000), pf_contribution |-> Some(1800)],
     [employee_profile_id |-> 2, lta |-> Some(1500)],
     [basic_salary |-> None]}

\* The update schema, were it to declare employee_profile_id as well.
SalaryStructureUpdateWithEmployee(body) ==
    [f \in DOMAIN body \cap (Earnings \cup Deductions \cup {"employee_profile_id"})
        |-> body[f]]

\* Schema SalaryStructureUpdate parsing a body, then
\* model_dump(exclude_unset=True): the declared fields the body sets; keys
\* the schema does not declare are ignored.
SalaryStructureUpdate(body) ==
    [f \in DOMAIN body \cap (Earnings \cup Deductions) |-> body[f]]

\* db.query(SalaryStructure).filter(employee_profile_id == pid)
StructuresOf(pid) == {ss \in salary_structures : ss.employee_profile_id = pid}

\* db.query(SalaryStructure).filter(SalaryStructure.id == sid)
StructureById(sid) == {ss \in salary_structures : ss.id = sid}

\* What a salary handler does with a request: its response and the table
\* of salary structures it leaves committed.
SalaryOutcome(code, detail, rows) ==
    [code |-> code, detail |-> detail, salary_structures |-> rows]

\* The row create_salary_structure inserts for the body in.
NewStructureRow(in) ==
    [f \in DOMAIN in \cup {"id"} |->
        IF f = "id" THEN NextId(salary_structures) ELSE in[f]]

\* The creation, were the row inserted before the duplicate is looked for.
CreateSalaryInsertsFirst(u, in) ==
    IF ~HasRole(u, Privileged)
    THEN SalaryOutcome(403, "Forbidden", salary_structures)
    ELSE IF ProfilesById(in.employee_profile_id) = {}
    THEN SalaryOutcome(404, "Employee profile not found", salary_structures)
    ELSE IF StructuresOf(in.employee_profile_id) # {}
    THEN SalaryOutcome(400,
             "Salary structure already exists for this employee. Use PUT to update.",
             salary_structures \cup {NewStructureRow(in)})
    ELSE SalaryOutcome(201, "", salary_structures \cup {NewStructureRow(in)})

\* POST /salary/structure with body in by the authenticated user u.
CreateSalaryOutcome(u, in) ==
    IF ~HasRole(u, Privileged)
    THEN SalaryOutcome(403, "Forbidden", salary_structures)
    ELSE IF ProfilesById(in.employee_profile_id) = {}
    THEN SalaryOutcome(404, "Employee profile not found", salary_structures)
    ELSE IF StructuresOf(in.employee_profile_id) # {}
    THEN SalaryOutcome(400,
             "Salary structure already exists for this employee. Use PUT to update.",
             salary_structures)
    ELSE SalaryOutcome(201, "", salary_structures \cup {NewStructureRow(in)})

\* The row after the setattr loop assigned the fields of update_data.
SetAttrs(row, update_data) ==
    [f \in DOMAIN row |->
        IF f \in DOMAIN update_data THEN update_data[f] ELSE row[f]]

\* PUT /salary/structure/{sid} with the JSON body by the authenticated user
\* u.  The commit fails on a NULL basic_salary (nullable=False) and nothing
\* is stored; the other columns take NULL, and the response schema, which
\* declares every amount a Decimal, then fails after the commit.
UpdateSalaryOutcomes(u, sid, body) ==
    IF ~HasRole(u, Privileged)
    THEN {SalaryOutcome(403, "Forbidden", salary_structures)}
    ELSE IF StructureById(sid) = {}
    THEN {SalaryOutcome(404, "Salary structure not found", salary_structures)}
    ELSE {LET row == SetAttrs(ss, SalaryStructureUpdate(body)) IN
          IF row.basic_salary = None
          THEN SalaryOutcome(500, "IntegrityError", salary_structures)
          ELSE IF \E f \in Earnings \cup Deductions : row[f] = None
          THEN SalaryOutcome(500, "ResponseValidationError",
                             Replace(salary_structures, ss, row))
          ELSE SalaryOutcome(200, "", Replace(salary_structures, ss, row))
          : ss \in StructureById(sid)}

\* GET /salary/{pid}/slip by the authenticated user u: the status code and
\* the computed amounts of the slip.
SlipOutcomes(u, pid) ==
    IF ~HasRole(u, Privileged)
    THEN {[code |-> 403, slip |-> None]}
    ELSE IF ProfilesById(pid) = {} \/ StructuresOf(pid) = {}
    THEN {[code |-> 404, slip |-> None]}
    ELSE {LET calculated_salary == calculate_net_salary(ss) IN
          IF calculated_salary.raised # None
          THEN [code |-> 500, slip |-> None]
          ELSE [code |-> 200, slip |-> Some(calculated_salary)]
          : ss \in StructuresOf(pid)}

\* The salary table becomes what the outcome o says.
ApplySalary(o) ==
    /\ salary_structures' = o.salary_structures
    /\ UNCHANGED <<users, profiles, attendances, corrections, today, sessions,
                   settings, activity_logs, client>>

CreateSalaryStructure(u, in) == ApplySalary(CreateSalaryOutcome(u, in))

UpdateSalaryStructure(u, sid, body) ==
    \E o \in UpdateSalaryOutcomes(u, sid, body) : ApplySalary(o)

\* salary_structure_id of an update: an existing structure or a missing one.
StructureIdArgs ==
    {ss.id : ss \in salary_structures} \cup {NextId(salary_structures)}

NextPayroll ==
    \/ \E u \in users : \E in \in BodiesFrom(u, SalaryPayloads) :
          CreateSalaryStructure(u, in)
    \/ \E u \in users, sid \in StructureIdArgs :
          \E body \in BodiesFrom(u, SalaryUpdateBodies) :
             UpdateSalaryStructure(u, sid, body)

SpecPayroll == Init /\ [][NextPayroll]_vars

\* The structure of the scenario, as a row of the table.
ScenarioStructure ==
    [id |-> 1, employee_profile_id |-> 1,
     basic_salary |-> Some(50000), hra |-> Some(10000),
     standard_allowance |-> Some(5000), performance_bonus |-> Some(2000),
     lta |-> Some(1000), fixed_allowance |-> Some(3000),
     professional_tax |-> Some(200), pf_contribution |-> Some(1500)]

NetSalaryIsExactWhereSet ==
    \A ss \in salary_structures :
        (\A f \in Earnings \cup Deductions : ss[f] # None)
        => LET c == calculate_net_salary(ss) IN
           /\ c.raised = None
           /\ c.gross_salary =
                 Some(ss.basic_salary[1] + ss.hra[1] + ss.standard_allowance[1]
                      + ss.performance_bonus[1] + ss.lta[1]
                      + ss.fixed_allowance[1])
           /\ c.total_deductions =
                 Some(ss.professional_tax[1] + ss.pf_contribution[1])
           /\ c.net_salary = Some(c.gross_salary[1] - c.total_deductions[1])

\* C15: no two salary structures are for the same employee profile; a
\* create for a profile that has a structure is answered 400 to a caller who
\* passes the role gate and changes nothing for any caller; and every
\* update leaves every structure with the employee profile it had.
C15_OneStructurePerEmployee ==
    /\ \A a \in salary_structures, b \in salary_structures :
          a.employee_profile_id = b.employee_profile_id => a = b
    /\ \A u \in Callers, in \in SalaryPayloads :
          (\E ss \in salary_structures :
              ss.employee_profile_id = in.employee_profile_id)
          => LET o == CreateSalaryOutcome(u, in) IN
             /\ o.salary_structures = salary_structures
             /\ u.role \in {"admin", "hr_officer"} => o.code = 400
    /\ \A u \in Callers, sid \in StructureIdArgs, body \in SalaryUpdateBodies :
          \A o \in UpdateSalaryOutcomes(u, sid, body) :
             /\ Cardinality(o.salary_structures) = Cardinality(salary_structures)
             /\ \A ss \in salary_structures :
                   \E n \in o.salary_structures :
                      /\ n.id = ss.id
                      /\ n.employee_profile_id = ss.employee_profile_id

\* Both employees have a structure, and the update whose body names employee
\* 2 has changed the lta of the structure of employee 1.
C15_Witness ==
    /\ \E ss \in salary_structures :
          ss.employee_profile_id = 1 /\ ss.lta = Some(1500)
    /\ \E ss \in salary_structures : ss.employee_profile_id = 2

----------------------------------------------------------------------------
(* User administration and settings: app/api/users.py, app/api/settings.py *)

MaxUsers == 3       \* primary keys 1..MaxUsers of users, settings and logs

\* What a users or settings handler does with a request: its response and
\* the users, profiles, settings and activity-log tables it leaves committed.
UserOutcome(code, detail, us, pf, st, logs) ==
    [code |-> code, detail |-> detail, users |-> us, profiles |-> pf,
     settings |-> st, activity_logs |-> logs]

\* The answer of a handler that writes nothing.
Refuse(code, detail) ==
    UserOutcome(code, detail, users, profiles, settings, activity_logs)

\* The roles the /users endpoints for listing, creating and deleting
\* let in, were the list to name the HR officer as well.
AdminOrHr == {"admin", "hr_officer"}

\* The roles the /users endpoints for listing, creating and deleting let
\* in: get_current_active_user_with_roles([UserRole.ADMIN]).
AdminOnly == {"admin"}

\* db.query(User).filter(User.id == uid)
UsersById(uid) == {x \in users : x.id = uid}

\* db.query(UserSettings).filter(UserSettings.user_id == uid)
SettingsOf(uid) == {st \in settings : st.user_id = uid}

\* The bodies of POST /auth/register and POST /users/ (schema UserCreate)
\* the model sends: an email some user holds or a new one.
UserCreateBodies ==
    [email : {"old@x.com", "new@x.com"}, password : {"password"},
     role : {"employee", "hr_officer"}, is_active : {TRUE}]

\* GET /users/ by the authenticated user u: the status code and the listing.
ReadUsersOutcome(u) ==
    IF ~HasRole(u, AdminOnly)
    THEN [code |-> 403, listing |-> None]
    ELSE [code |-> 200, listing |-> Some(users)]

\* POST /users/ with body in by the authenticated user u.
CreateUserOutcome(u, in) ==
    IF ~HasRole(u, AdminOnly)
    THEN Refuse(403, "Forbidden")
    ELSE IF UsersByEmail(in.email) # {}
    THEN Refuse(400, "Email already registered")
    ELSE LET row == NewUserRow(in) IN
         UserOutcome(201, "", users \cup {row}, profiles,
                     settings \cup {DefaultSettings(NextId(settings), row.id)},
                     activity_logs)

\* The check on a single user, were it to let the HR officer through as the
\* attendance and salary endpoints do.
MayAccessUserOrHr(u, uid) == u.id = uid \/ u.role \in {"admin", "hr_officer"}

\* May the caller u read or update the user uid?  The negation of the test
\* current_user.id != user_id and current_user.role != UserRole.ADMIN.
MayAccessUser(u, uid) == u.id = uid \/ u.role = "admin"

\* GET /users/{uid} by the authenticated user u: the status code and the
\* user returned.
ReadUserOutcomes(u, uid) ==
    IF UsersById(uid) = {}
    THEN {[code |-> 404, detail |-> "User not found", user |-> None]}
    ELSE IF ~MayAccessUser(u, uid)
    THEN {[code |-> 403,
           detail |-> "Not authorized to access this user's profile",
           user |-> None]}
    ELSE {[code |-> 200, detail |-> "", user |-> Some(db_user)]
          : db_user \in UsersById(uid)}

\* The JSON bodies of PUT /users/{id} the model sends: the keys present.
UserUpdateBodies ==
    {[email |-> "old@x.com"],
     [email |-> "new@x.com", role |-> "hr_officer"]}

\* Schema UserUpdate parsing a body, then model_dump(exclude_unset=True)
\* and the replacement of a password by its hash (lines 95-99).
UserUpdate(body) ==
    [f \in (DOMAIN body \cap {"email", "role", "is_active"})
           \cup (IF "password" \in DOMAIN body THEN {"hashed_password"} ELSE {})
        |-> IF f = "hashed_password" THEN Hash(body.password) ELSE body[f]]

\* PUT /users/{uid} with the JSON body by the authenticated user u.  The
\* handler looks for no other holder of the email; the commit fails on the
\* unique index of users.email (models/user.py line 19) and nothing is stored.
UpdateUserOutcomes(u, uid, body) ==
    IF UsersById(uid) = {}
    THEN {Refuse(404, "User not found")}
    ELSE IF ~MayAccessUser(u, uid)
    THEN {Refuse(403, "Not authorized to update this user")}
    ELSE {LET row == SetAttrs(db_user, UserUpdate(body)) IN
          IF \E x \in users \ {db_user} : x.email = row.email
          THEN Refuse(500, "IntegrityError")
          ELSE UserOutcome(200, "", Replace(users, db_user, row), profiles,
                           settings, activity_logs)
          : db_user \in UsersById(uid)}

\* The deletion, were the settings relationship to lack its delete cascade.
DeleteUserKeepsSettings(u, uid) ==
    IF ~HasRole(u, AdminOnly)
    THEN Refuse(403, "Forbidden")
    ELSE IF UsersById(uid) = {}
    THEN Refuse(404, "User not found")
    ELSE UserOutcome(204, "", users \ UsersById(uid),
                     {p \in profiles : p.user_id # uid},
                     settings,
                     {l \in activity_logs : l.user_id # uid})

\* DELETE /users/{uid} by the authenticated user u: the user goes, and with
\* it the rows of relationships employee_profile, settings and activity_logs
\* (cascade="all, delete-orphan", models/user.py lines 27-29).
DeleteUserOutcome(u, uid) ==
    IF ~HasRole(u, AdminOnly)
    THEN Refuse(403, "Forbidden")
    ELSE IF UsersById(uid) = {}
    THEN Refuse(404, "User not found")
    ELSE UserOutcome(204, "", users \ UsersById(uid),
                     {p \in profiles : p.user_id # uid},
                     {st \in settings : st.user_id # uid},
                     {l \in activity_logs : l.user_id # uid})

\* GET /settings/me, were it to answer 404 as the update does.
GetSettingsWithoutCreate(u) ==
    IF SettingsOf(u.id) = {}
    THEN {Refuse(404, "User settings not found")}
    ELSE {Refuse(200, "")}

\* GET /settings/me by the authenticated user u: the row is read, or
\* inserted with the column defaults when the user has none.
GetSettingsOutcomes(u) ==
    IF SettingsOf(u.id) = {}
    THEN {UserOutcome(200, "", users, profiles,
                      settings \cup {DefaultSettings(NextId(settings), u.id)},
                      activity_logs)}
    ELSE {Refuse(200, "")}

\* The body of PUT /settings/me (schema UserSettingsUpdate) the model
\* sends: the one tests/manual_api_runner.py sends.
SettingsUpdateBodies ==
    {[receive_notifications |-> FALSE, theme |-> "dark", language |-> "en"]}

\* PUT /settings/me with the JSON body by the authenticated user u.
UpdateSettingsOutcomes(u, body) ==
    IF SettingsOf(u.id) = {}
    THEN {Refuse(404, "User settings not found")}
    ELSE {UserOutcome(200, "", users, profiles,
                      Replace(settings, user_settings,
                              SetAttrs(user_settings, body)),
                      activity_logs)
          : user_settings \in SettingsOf(u.id)}

\* The tables become what the outcome o says, within the model's bounds.
ApplyUsers(o) ==
    /\ \A row \in o.users \cup o.settings \cup o.activity_logs :
          row.id <= MaxUsers
    /\ users' = o.users
    /\ profiles' = o.profiles
    /\ settings' = o.settings
    /\ activity_logs' = o.activity_logs
    /\ UNCHANGED <<salary_structures, attendances, corrections, today,
                   sessions, client>>

\* The users who can be behind a request: get_current_active_user.
ActiveUsers == {u \in users : u.is_active}

Register(in) ==
    LET o == RegisterOutcome(in) IN
    ApplyUsers(UserOutcome(o.code, o.detail, o.users, profiles, o.settings,
                           o.activity_logs))

CreateUser(u, in) == ApplyUsers(CreateUserOutcome(u, in))

UpdateUser(u, uid, body) ==
    \E o \in UpdateUserOutcomes(u, uid, body) : ApplyUsers(o)

\* The attendance records of the profiles pf: a deleted profile takes its
\* attendance records with it.
AttendancesOfProfiles(pf) ==
    {a \in attendances : \E p \in pf : p.id = a.employee_profile_id}

\* The salary structures of the profiles pf: a deleted profile takes its
\* salary structure with it.
StructuresOfProfiles(pf) ==
    {ss \in salary_structures : \E p \in pf : p.id = ss.employee_profile_id}

\* DELETE /users/{uid}: the whole store after the request, the rows of the
\* user's profile included.  Correction requests have no owner and stay.
DeleteUserStore(u, uid) ==
    LET o == DeleteUserOutcome(u, uid) IN
    [code |-> o.code, detail |-> o.detail, users |-> o.users,
     profiles |-> o.profiles, settings |-> o.settings,
     activity_logs |-> o.activity_logs,
     attendances |-> AttendancesOfProfiles(o.profiles),
     salary_structures |-> StructuresOfProfiles(o.profiles),
     corrections |-> corrections]

DeleteUser(u, uid) ==
    LET o == DeleteUserStore(u, uid) IN
    /\ users' = o.users
    /\ profiles' = o.profiles
    /\ settings' = o.settings
    /\ activity_logs' = o.activity_logs
    /\ attendances' = o.attendances
    /\ salary_structures' = o.salary_structures
    /\ corrections' = o.corrections
    /\ UNCHANGED <<today, sessions, client>>

GetSettings(u) == \E o \in GetSettingsOutcomes(u) : ApplyUsers(o)

UpdateSettings(u, body) ==
    \E o \in UpdateSettingsOutcomes(u, body) : ApplyUsers(o)

\* user_id of a path: an existing user or a missing one.
UserIdArgs == {x.id : x \in users} \cup {NextId(users)}

\* The users of a company that has run for a while: the admin seeded at
\* start-up, who never registered and has no settings row yet, and a
\* deactivated HR officer who registered.
SeedAccounts ==
    {[id |-> 1, email |-> "admin@example.com", role |-> "admin",
      is_active |-> TRUE, hashed_password |-> Hash("adminpassword")],
     [id |-> 2, email |-> "old@x.com", role |-> "hr_officer",
      is_active |-> FALSE, hashed_password |-> Hash("password")]}

InitUsers ==
    /\ users = SeedAccounts
    /\ profiles = SoloProfiles
    /\ attendances = {}
    /\ corrections = {}
    /\ today = 1
    /\ sessions = [s \in Slots |-> Idle]
    /\ settings = {DefaultSettings(1, 2)}
    /\ activity_logs = {}
    /\ salary_structures = {}
    /\ pc = "off"
    /\ token = None
    /\ trail = << >>

NextUsers ==
    \/ \E in \in UserCreateBodies : Register(in)
    \/ \E u \in ActiveUsers, in \in UserCreateBodies : CreateUser(u, in)
    \/ \E u \in ActiveUsers, uid \in UserIdArgs, body \in UserUpdateBodies :
          UpdateUser(u, uid, body)
    \/ \E u \in ActiveUsers, uid \in UserIdArgs : DeleteUser(u, uid)
    \/ \E u \in ActiveUsers : GetSettings(u)
    \/ \E u \in ActiveUsers, body \in SettingsUpdateBodies :
          UpdateSettings(u, body)

SpecUsers == InitUsers /\ [][NextUsers]_vars

----------------------------------------------------------------------------
(* Properties of user administration and settings *)

\* Is row the settings row of user uid with the column defaults?
IsDefaultSettings(row, uid) ==
    /\ row.user_id = uid /\ row.receive_notifications = TRUE
    /\ row.theme = "light" /\ row.language = "en"

\* C16: registering with an email that a user of the table holds is answered
\* 400 "Email already registered" and leaves the users, settings and
\* activity-log tables as they were.
C16_RegisterExistingEmail ==
    \A in \in UserCreateBodies :
        (\E x \in users : x.email = in.email)
        => LET o == RegisterOutcome(in) IN
           /\ o.code = 400
           /\ o.detail = "Email already registered"
           /\ o.users = users
           /\ o.settings = settings
           /\ o.activity_logs = activity_logs

\* A user has registered with new@x.com, as the log says, and holds it still.
C16_Witness ==
    \E x \in users, l \in activity_logs :
        /\ x.email = "new@x.com" /\ l.user_id = x.id
        /\ l.action = "User registration"

\* C17: no two users share an email, and register, admin create-user and
\* update-user each answer 400 and write no user when the email is held by
\* another user.
C17_DuplicateEmailIsConflict ==
    /\ \A a \in users, b \in users : a.email = b.email => a = b
    /\ \A in \in UserCreateBodies :
          (\E x \in users : x.email = in.email)
          => /\ RegisterOutcome(in).code = 400
             /\ \A u \in ActiveUsers :
                   u.role = "admin" => CreateUserOutcome(u, in).code = 400
    /\ \A u \in ActiveUsers, x \in users, body \in UserUpdateBodies :
          (/\ u.id = x.id \/ u.role = "admin"
           /\ \E y \in users : y.id # x.id /\ y.email = body.email)
          => \A o \in UpdateUserOutcomes(u, x.id, body) :
                o.code = 400 /\ o.users = users

\* The settings row registration and admin creation leave the new user with.
NewUserHasDefaultSettings ==
    \A in \in UserCreateBodies :
        (\A x \in users : x.email # in.email)
        => /\ LET o == RegisterOutcome(in) IN
              \E x \in o.users \ users :
                 \E row \in o.settings \ settings :
                    IsDefaultSettings(row, x.id)
           /\ \A u \in ActiveUsers :
                 u.role = "admin"
                 => LET o == CreateUserOutcome(u, in) IN
                    \E x \in o.users \ users :
                       \E row \in o.settings \ settings :
                          IsDefaultSettings(row, x.id)

\* A GET /settings/me by a user without a row is answered 200 and adds the
\* row with the defaults, and nothing else.
FirstReadCreatesSettings ==
    \A u \in ActiveUsers :
        (\A row \in settings : row.user_id # u.id)
        => \A o \in GetSettingsOutcomes(u) :
              /\ o.code = 200
              /\ \E row \in o.settings \ settings :
                    /\ o.settings = settings \cup {row}
                    /\ IsDefaultSettings(row, u.id)

\* C18 (as claimed): registration and admin creation give the new user the
\* default settings row, and a first access by a user without a row, GET or
\* PUT /settings/me, creates the row instead of failing.
C18_SettingsOnFirstAccess ==
    /\ NewUserHasDefaultSettings
    /\ FirstReadCreatesSettings
    /\ \A u \in ActiveUsers, body \in SettingsUpdateBodies :
          (\A row \in settings : row.user_id # u.id)
          => \A o \in UpdateSettingsOutcomes(u, body) :
                /\ o.code = 200
                /\ \E row \in o.settings : row.user_id = u.id

\* C18 (amended): registration and admin creation give the new user the
\* default settings row, and a first GET /settings/me by a user without a
\* row creates it with the defaults; a PUT /settings/me by a user without a
\* row is answered 404 and creates nothing.
C18_SettingsOnFirstRead ==
    /\ NewUserHasDefaultSettings
    /\ FirstReadCreatesSettings
    /\ \A u \in ActiveUsers, body \in SettingsUpdateBodies :
          (\A row \in settings : row.user_id # u.id)
          => \A o \in UpdateSettingsOutcomes(u, body) :
                /\ o.code = 404
                /\ o.detail = "User settings not found"
                /\ o.settings = settings

\* The seeded admin, who had no row, has one with the defaults, and so has a
\* user who registered.
C18_Witness ==
    /\ \E row \in settings : IsDefaultSettings(row, 1)
    /\ \E x \in users, l \in activity_logs, row \in settings :
          /\ l.user_id = x.id /\ l.action = "User registration"
          /\ row.user_id = x.id

\* C20: listing, creating and deleting users is answered 403 to a caller
\* whose role is hr_officer or employee, and the users table and the tables
\* of its children stay as they were; to an admin the listing is answered
\* 200, the creation of a user with a new email 201 and the deletion of a
\* user of the table 204.
C20_UsersAdminOnly ==
    \A u \in Callers :
        /\ ReadUsersOutcome(u).code = IF u.role = "admin" THEN 200 ELSE 403
        /\ \A in \in UserCreateBodies :
              LET o == CreateUserOutcome(u, in) IN
              IF u.role = "admin"
              THEN (\A x \in users : x.email # in.email) => o.code = 201
              ELSE /\ o.code = 403
                   /\ o.users = users /\ o.settings = settings
        /\ \A uid \in UserIdArgs :
              LET o == DeleteUserOutcome(u, uid) IN
              IF u.role = "admin"
              THEN (\E x \in users : x.id = uid) => o.code = 204
              ELSE /\ o.code = 403
                   /\ o.users = users /\ o.settings = settings
                   /\ o.profiles = profiles

\* The admin has deleted the seeded HR officer and created a user: one who
\* has a settings row and no registration in the log.
C20_Witness ==
    /\ \A x \in users : x.email # "old@x.com"
    /\ \E x \in users, row \in settings :
          /\ x.email = "new@x.com" /\ row.user_id = x.id
          /\ \A l \in activity_logs : l.user_id # x.id

----------------------------------------------------------------------------
(* First reads of the settings served concurrently: GET /settings/me reads  *)
(* (line 18) and commits its insert later (lines 21-23).                    *)

\* Accounts whose rows were in the users table before any settings row was:
\* the state the insert of get_my_settings (lines 19-21) is there for.
InitLazy ==
    /\ users = SeedUsers
    /\ profiles = SeedProfiles
    /\ attendances = {}
    /\ corrections = {}
    /\ today = 1
    /\ sessions = [s \in Slots |-> Idle]
    /\ settings = {}
    /\ activity_logs = {}
    /\ salary_structures = {}
    /\ pc = "off"
    /\ token = None
    /\ trail = << >>

\* get_my_settings up to its read (line 18): has the user a row?
BeginGetSettings(s, u) ==
    /\ sessions[s] = Idle
    /\ sessions' = [sessions EXCEPT ![s] =
           [op |-> "get_settings", user_id |-> u.id,
            found |-> SettingsOf(u.id) # {}]]
    /\ UNCHANGED <<users, profiles, salary_structures, attendances,
                   corrections, today, settings, activity_logs, client>>

\* get_my_settings from line 19 to its answer: a row that was read is
\* returned; otherwise the insert is committed, and fails on the unique
\* index of user_settings.user_id (models/user_settings.py line 12) when a
\* row for the user is there by now.
CommitGetSettings(s) ==
    /\ sessions[s].op = "get_settings"
    /\ IF sessions[s].found
       THEN /\ sessions' = [sessions EXCEPT ![s] = [op |-> "answered", code |-> 200]]
            /\ UNCHANGED settings
       ELSE IF SettingsOf(sessions[s].user_id) # {}
       THEN /\ sessions' = [sessions EXCEPT ![s] = [op |-> "answered", code |-> 500]]
            /\ UNCHANGED settings
       ELSE /\ sessions' = [sessions EXCEPT ![s] = [op |-> "answered", code |-> 200]]
            /\ settings' = settings \cup
                  {DefaultSettings(NextId(settings), sessions[s].user_id)}
    /\ UNCHANGED <<users, profiles, salary_structures, attendances,
                   corrections, today, activity_logs, client>>

\* The answer has gone to the client and the session is closed.
Answered(s) ==
    /\ sessions[s].op = "answered"
    /\ sessions' = [sessions EXCEPT ![s] = Idle]
    /\ UNCHANGED <<users, profiles, salary_structures, attendances,
                   corrections, today, settings, activity_logs, client>>

NextSettingsConc ==
    \/ \E s \in Slots, u \in ActiveUsers : BeginGetSettings(s, u)
    \/ \E s \in Slots : CommitGetSettings(s)
    \/ \E s \in Slots : Answered(s)

SpecSettingsConc == InitLazy /\ [][NextSettingsConc]_vars

\* C19: whatever the interleaving of the first reads of one user's settings,
\* at most one settings row of that user exists and no request is answered
\* with a failure.
C19_ConcurrentFirstReads ==
    /\ \A a \in settings, b \in settings : a.user_id = b.user_id => a = b
    /\ \A s \in Slots :
          sessions[s].op = "answered" => sessions[s].code = 200

----------------------------------------------------------------------------
(* The read endpoints: what a caller is shown *)

\* What a listing endpoint answers: the status code and the rows shown.
Listing(code, rows) == [code |-> code, rows |-> rows]

\* The day the server process started: the value of Init's calendar.  The
\* defaults "day: date = date.today()" of the daily and weekly listings are
\* evaluated once, when the module is imported.
ProcessStartDay == 1

\* date.weekday(): 0 is Monday and 6 is Sunday.  Day 1 is a Sunday, so that
\* a week ends between day 1 and day 2.
weekday(d) == (d + 5) % 7

\* The default of the day parameter of the daily and weekly listings.
DefaultDay == ProcessStartDay

\* GET /attendance/daily?day=... by the authenticated user u; day is None
\* when the parameter is left out.
DailyOutcome(u, day) ==
    IF ~HasRole(u, Privileged)
    THEN Listing(403, None)
    ELSE LET d == IF day = None THEN DefaultDay ELSE day[1] IN
         Listing(200, Some({a \in attendances : a.date = d}))

\* GET /attendance/weekly?day_in_week=... by the authenticated user u.
WeeklyOutcome(u, day_in_week) ==
    IF ~HasRole(u, Privileged)
    THEN Listing(403, None)
    ELSE LET d == IF day_in_week = None THEN DefaultDay ELSE day_in_week[1]
             start_of_week == d - weekday(d)
             end_of_week == start_of_week + 6
         IN  Listing(200, Some({a \in attendances :
                                  /\ a.date >= start_of_week
                                  /\ a.date <= end_of_week}))

\* GET /attendance/me by the authenticated user u.
MyAttendanceOutcomes(u) ==
    IF ProfilesOfUser(u.id) = {}
    THEN {Listing(404, None)}
    ELSE {Listing(200, Some({a \in attendances :
                               a.employee_profile_id = employee_profile.id}))
          : employee_profile \in ProfilesOfUser(u.id)}

\* GET /attendance/all?employee_profile_id=... by the authenticated user u.
AllAttendanceOutcome(u, employee_profile_id) ==
    IF ~HasRole(u, Privileged)
    THEN Listing(403, None)
    ELSE IF employee_profile_id = None
    THEN Listing(200, Some(attendances))
    ELSE Listing(200, Some({a \in attendances :
                              a.employee_profile_id = employee_profile_id[1]}))

\* GET /salary/me by the authenticated user u.
MySalaryOutcomes(u) ==
    IF ProfilesOfUser(u.id) = {}
    THEN {Listing(404, None)}
    ELSE UNION {IF StructuresOf(employee_profile.id) = {}
                THEN {Listing(404, None)}
                ELSE {Listing(200, Some({ss})) :
                         ss \in StructuresOf(employee_profile.id)}
                : employee_profile \in ProfilesOfUser(u.id)}

\* GET /salary/all by the authenticated user u.
AllPayrollOutcome(u) ==
    IF ~HasRole(u, Privileged)
    THEN Listing(403, None)
    ELSE IF \E ss \in salary_structures : calculate_net_salary(ss).raised # None
    THEN Listing(500, None)
    ELSE Listing(200, Some(salary_structures))

\* GET /attendance-correction/pending by the authenticated user u.
PendingCorrectionsOutcome(u) ==
    IF ~HasRole(u, Privileged)
    THEN Listing(403, None)
    ELSE Listing(200, Some({r \in corrections : r.status = "pending"}))

\* GET /attendance-correction/me by the authenticated user u.
MyCorrectionsOutcome(u) ==
    Listing(200, Some({r \in corrections : r.requested_by_id = u.id}))

----------------------------------------------------------------------------
(* The office: attendance, corrections, payroll and user administration of *)
(* one day, in one store                                                   *)

\* The bodies a new colleague registers with.
JoinerBodies ==
    [email : {"new@x.com"}, password : {"password"}, role : {"employee"},
     is_active : {TRUE}]

\* The salary updates the office sends.
OfficeSalaryUpdates == {[hra |-> Some(12000)], [basic_salary |-> None]}

NextOffice ==
    \/ \E u \in ActiveUsers : CheckIn(u)
    \/ \E u \in ActiveUsers : CheckOut(u)
    \/ \E u \in ActiveUsers, in \in CorrectionPayloads : CreateCorrection(u, in)
    \/ \E u \in ActiveUsers, rid \in CorrectionIdArgs : Approve(u, rid)
    \/ \E u \in ActiveUsers, rid \in CorrectionIdArgs :
          \E in \in BodiesFrom(u, RejectPayloads) : Reject(u, rid, in)
    \/ \E u \in ActiveUsers : \E in \in BodiesFrom(u, SalaryPayloads) :
          CreateSalaryStructure(u, in)
    \/ \E u \in ActiveUsers, sid \in StructureIdArgs :
          \E body \in BodiesFrom(u, OfficeSalaryUpdates) :
             UpdateSalaryStructure(u, sid, body)
    \/ \E in \in JoinerBodies : Register(in)
    \/ \E u \in ActiveUsers, uid \in UserIdArgs : DeleteUser(u, uid)

SpecOffice == InitSolo /\ [][NextOffice]_vars

----------------------------------------------------------------------------
(* Properties of the access rules *)

\* C21 (as claimed): reading or updating a user of the table succeeds for
\* the user itself and for a caller whose role is admin or hr_officer, and
\* is answered 403 for every other caller.
C21_SelfOrPrivileged ==
    \A u \in Callers, x \in users, body \in UserUpdateBodies :
        IF u.id = x.id \/ u.role \in {"admin", "hr_officer"}
        THEN /\ \A o \in ReadUserOutcomes(u, x.id) : o.code = 200
             /\ \A o \in UpdateUserOutcomes(u, x.id, body) : o.code = 200
        ELSE /\ \A o \in ReadUserOutcomes(u, x.id) : o.code = 403
             /\ \A o \in UpdateUserOutcomes(u, x.id, body) : o.code = 403

\* C21 (amended): reading or updating a user of the table is answered 403,
\* and nothing is written, for every caller who is neither that user nor an
\* admin, an hr_officer included; the user itself and an admin are never
\* answered 403, and their read is answered 200 with that user.
C21_SelfOrAdmin ==
    \A u \in Callers, x \in users, body \in UserUpdateBodies :
        IF u.id = x.id \/ u.role = "admin"
        THEN /\ \A o \in ReadUserOutcomes(u, x.id) :
                   o.code = 200 /\ o.user = Some(x)
             /\ \A o \in UpdateUserOutcomes(u, x.id, body) : o.code # 403
        ELSE /\ \A o \in ReadUserOutcomes(u, x.id) :
                   o.code = 403 /\ o.user = None
             /\ \A o \in UpdateUserOutcomes(u, x.id, body) :
                   o.code = 403 /\ o.users = users

\* The admin has updated another user: the deactivated officer who was
\* seeded as old@x.com now holds new@x.com.
C21_Witness ==
    \E x \in users :
        /\ ~x.is_active /\ x.email = "new@x.com" /\ x.role = "hr_officer"
        /\ \E y \in users : y.role = "admin" /\ y.id # x.id

\* The endpoints that show the records of several employees answer
\* Forbidden, and show nothing, to a caller with the role employee.
CrossEmployeeEndpointsForbidden ==
    \A u \in Callers :
        u.role = "employee" =>
            /\ \A day \in Opt(Dates) :
                  /\ DailyOutcome(u, day) = Listing(403, None)
                  /\ WeeklyOutcome(u, day) = Listing(403, None)
            /\ \A pid \in Opt(ProfileIdArgs) :
                  AllAttendanceOutcome(u, pid) = Listing(403, None)
            /\ AllPayrollOutcome(u) = Listing(403, None)
            /\ \A pid \in ProfileIdArgs :
                  \A o \in SlipOutcomes(u, pid) : o.code = 403 /\ o.slip = None
            /\ PendingCorrectionsOutcome(u) = Listing(403, None)

\* Is the correction request r about an attendance record of the user u?
OwnRequest(r, u) ==
    \E a \in attendances : a.id = r.attendance_id /\ OwnerOf(a) = u.id

\* The '/me' endpoints show a caller records of the caller only.
MeEndpointsShowOwnRecords ==
    \A u \in Callers :
        /\ \A o \in MyAttendanceOutcomes(u) :
              o.rows # None => \A a \in o.rows[1] : OwnerOf(a) = u.id
        /\ \A o \in MySalaryOutcomes(u) :
              o.rows # None =>
                 \A ss \in o.rows[1] :
                    \E p \in ProfilesOfUser(u.id) : p.id = ss.employee_profile_id
        /\ \A r \in MyCorrectionsOutcome(u).rows[1] : OwnRequest(r, u)

\* C22: a caller who is neither the owner nor privileged never obtains
\* another employee's attendance history, salary structure or correction
\* requests: the cross-employee endpoints answer Forbidden and the '/me'
\* endpoints return only records that belong to the caller.
C22_NoCrossEmployeeRead ==
    CrossEmployeeEndpointsForbidden /\ MeEndpointsShowOwnRecords

----------------------------------------------------------------------------
(* Properties of user deletion and of the profile of a user *)

\* C23: deleting a user deletes every child entity the user owns: once
\* delete_user has succeeded, no profile, attendance record, salary
\* structure or settings row of that user remains, and the rows of the
\* other users stay.
C23_DeleteCascades ==
    \A u \in Callers, x \in users :
        LET o == DeleteUserStore(u, x.id)
            owned == {p.id : p \in ProfilesOfUser(x.id)}
        IN  /\ u.role = "admin" => o.code = 204
            /\ o.code = 204 =>
                  /\ o.users = users \ {x}
                  /\ \A p \in o.profiles : p.user_id # x.id
                  /\ \A a \in o.attendances : a.employee_profile_id \notin owned
                  /\ \A ss \in o.salary_structures :
                        ss.employee_profile_id \notin owned
                  /\ \A st \in o.settings : st.user_id # x.id
                  /\ o.profiles = {p \in profiles : p.user_id # x.id}
                  /\ o.attendances =
                        {a \in attendances : a.employee_profile_id \notin owned}
                  /\ o.salary_structures =
                        {ss \in salary_structures :
                            ss.employee_profile_id \notin owned}
                  /\ o.settings = {st \in settings : st.user_id # x.id}

\* The employee who checked in and asked for a correction has been deleted:
\* the request is what is left of that user.
C23_Witness ==
    /\ \E r \in corrections : \A x \in users : x.id # r.requested_by_id
    /\ profiles = {}
    /\ attendances = {}
    /\ salary_structures = {}
    /\ \A st \in settings : \E x \in users : x.id = st.user_id

\* A company in which every user has been given an employee profile.
StaffedProfiles == {[id |-> u.id, user_id |-> u.id] : u \in SeedUsers}

\* The settings of the two employees, who registered; the admin, seeded at
\* start-up, has not read its settings yet.
StaffedSettings == {DefaultSettings(1, 2), DefaultSettings(2, 3)}

InitStaffed ==
    /\ users = SeedUsers
    /\ profiles = StaffedProfiles
    /\ attendances = {}
    /\ corrections = {}
    /\ today = 1
    /\ sessions = [s \in Slots |-> Idle]
    /\ settings = StaffedSettings
    /\ activity_logs = {}
    /\ salary_structures = {}
    /\ pc = "off"
    /\ token = None
    /\ trail = << >>

SpecStaffed == InitStaffed /\ [][NextUsers]_vars

\* C24: in every reachable state each user has exactly one employee
\* profile: registration and user creation by an admin leave the new user
\* with a profile, and no user has none or more than one.
C24_OneProfilePerUser ==
    \A x \in users : Cardinality(ProfilesOfUser(x.id)) = 1

----------------------------------------------------------------------------
(* The bearer token: which routes ask for one, and a client that registers, *)
(* logs in and asks who it is                                               *)

\* A route and the dependency its handler declares on the caller: none,
\* get_current_active_user ("user") or get_current_active_user_with_roles
\* with the roles listed ("roles").
Route(name, depends, roles) ==
    [name |-> name, depends |-> depends, roles |-> roles]

\* The routes of the routers, were read_users_me to declare no dependency.
RoutesWithOpenMe ==
    {Route("POST /auth/register", "none", {}),
     Route("POST /auth/login", "none", {}),
     Route("GET /auth/users/me", "none", {})}

\* The routes of the seven routers of app/api.
Routes ==
    {Route("POST /auth/register", "none", {}),
     Route("POST /auth/login", "none", {}),
     Route("GET /auth/users/me", "user", UserRole),
     Route("POST /auth/logout", "user", UserRole),
     Route("POST /attendance/check-in", "user", UserRole),
     Route("POST /attendance/check-out", "user", UserRole),
     Route("GET /attendance/daily", "roles", Privileged),
     Route("GET /attendance/weekly", "roles", Privileged),
     Route("GET /attendance/me", "user", UserRole),
     Route("GET /attendance/all", "roles", Privileged),
     Route("POST /attendance/manual", "roles", Privileged),
     Route("POST /attendance-correction/", "user", UserRole),
     Route("GET /attendance-correction/pending", "roles", Privileged),
     Route("PUT /attendance-correction/{id}/approve", "roles", Privileged),
     Route("PUT /attendance-correction/{id}/reject", "roles", Privileged),
     Route("GET /attendance-correction/me", "user", UserRole),
     Route("GET /dashboard/me", "user", UserRole),
     Route("GET /dashboard/admin", "roles", Privileged),
     Route("POST /salary/structure", "roles", Privileged),
     Route("PUT /salary/structure/{id}", "roles", Privileged),
     Route("GET /salary/me", "user", UserRole),
     Route("GET /salary/all", "roles", Privileged),
     Route("GET /salary/{id}/slip", "roles", Privileged),
     Route("GET /settings/me", "user", UserRole),
     Route("PUT /settings/me", "user", UserRole),
     Route("GET /users/", "roles", AdminOnly),
     Route("POST /users/", "roles", AdminOnly),
     Route("GET /users/{id}", "user", UserRole),
     Route("PUT /users/{id}", "user", UserRole),
     Route("DELETE /users/{id}", "roles", AdminOnly)}

\* The routes the spec leaves open; the root route belongs to app/main.py
\* and to none of the routers.
PublicRoutes == {"POST /auth/register", "POST /auth/login"}

RouteByName(name) == CHOOSE route \in Routes : route.name = name

\* What stands between a request carrying the token tok and the handler of
\* the route: the dependency is resolved before the handler body runs, and
\* the body runs only on "handler".
Gate(route, tok) ==
    IF route.depends = "none" THEN {"handler"}
    ELSE IF CurrentUser(tok) = {} THEN {"401"}
    ELSE {IF HasRole(u, route.roles) THEN "handler" ELSE "403"
          : u \in CurrentUser(tok)}

\* GET /auth/users/me with the token tok: the status code and the user shown.
ReadUsersMeOutcomes(tok) ==
    UNION {IF g = "401" THEN {[code |-> 401, user |-> None]}
           ELSE IF g = "403" THEN {[code |-> 403, user |-> None]}
           ELSE {[code |-> 200, user |-> Some(u)] : u \in CurrentUser(tok)}
           : g \in Gate(RouteByName("GET /auth/users/me"), tok)}

\* The bodies the client registers with.
SessionBodies ==
    [email : {"alice@x.com"}, password : {"secret"}, role : {"employee"},
     is_active : BOOLEAN]

\* The forms the client logs in with: the right one, a wrong password, an
\* unknown email.
LoginForms ==
    {[username |-> "alice@x.com", password |-> "secret"],
     [username |-> "alice@x.com", password |-> "wrong"],
     [username |-> "nobody@x.com", password |-> "secret"]}

\* One call of the client, as the trail keeps it.
Call(route, in, tok, code, out) ==
    [route |-> route, in |-> in, token |-> tok, code |-> code, out |-> out]

SessionRegister ==
    /\ pc = "register"
    /\ \E in \in SessionBodies :
          LET o == RegisterOutcome(in) IN
          /\ ApplyAuth(o)
          /\ trail' = Append(trail, Call("register", in, token, o.code, None))
    /\ pc' = "login"
    /\ UNCHANGED token

SessionLogin ==
    /\ pc = "login"
    /\ \E in \in LoginForms :
       \E o \in LoginOutcomes(in.username, in.password) :
          /\ ApplyAuth(o)
          /\ token' = o.token
          /\ trail' = Append(trail, Call("login", in, token, o.code, o.token))
    /\ pc' = "me"

SessionMe ==
    /\ pc = "me"
    /\ \E o \in ReadUsersMeOutcomes(token) :
          trail' = Append(trail, Call("me", None, token, o.code, o.user))
    /\ pc' = "done"
    /\ UNCHANGED <<users, profiles, salary_structures, attendances, corrections,
                   today, sessions, settings, activity_logs, token>>

NextSession ==
    \/ WalkStart
    \/ SessionRegister
    \/ SessionLogin
    \/ SessionMe
    \/ \E u \in SeedUsers : CheckIn(u)
    \/ \E u \in SeedUsers : CheckOut(u)

SpecSession == Init /\ [][NextSession]_vars

\* C25: every route except register and login asks for a bearer token: a
\* request without one, GET /auth/users/me among them, is answered 401
\* before the handler runs, and the client that asked is shown no user.
C25_TokenRequired ==
    /\ \A route \in Routes :
          route.name \notin PublicRoutes => Gate(route, None) = {"401"}
    /\ \A o \in ReadUsersMeOutcomes(None) : o.code = 401 /\ o.user = None
    /\ \A i \in 1..Len(trail) :
          trail[i].route = "me" /\ trail[i].token = None
          => trail[i].code = 401 /\ trail[i].out = None

\* The client's login failed and its call without a token was turned away.
C25_Witness ==
    /\ pc = "done"
    /\ token = None
    /\ trail[3].route = "me"
    /\ trail[3].code = 401

\* The client registered with the email and the password of its login form.
RegisteredWithForm ==
    /\ trail[1].code = 201
    /\ trail[2].in.username = trail[1].in.email
    /\ trail[2].in.password = trail[1].in.password

\* The last call showed the client the user it registered as.
ShownItself ==
    /\ trail[3].code = 200
    /\ trail[3].out # None
    /\ trail[3].out[1].email = trail[1].in.email

----------------------------------------------------------------------------
(* Errors and the store *)

\* The status codes of NotFound, Conflict, Forbidden and Unauthorized.
ErrorCodes == {400, 401, 403, 404}

\* The outcome o of a user or settings handler leaves its tables as they are.
NoUserWrite(o) ==
    /\ o.users = users
    /\ o.profiles = profiles
    /\ o.settings = settings
    /\ o.activity_logs = activity_logs

\* The outcome o of delete_user leaves the whole store as it is.
NoStoreWrite(o) ==
    /\ NoUserWrite(o)
    /\ NoWrite(o)
    /\ o.salary_structures = salary_structures

\* C27: a request that ends in an error response (NotFound, Conflict,
\* Forbidden or Unauthorized) leaves the store unchanged: no handler commits
\* a write before it raises, for check-in, check-out, manual entry,
\* correction create, approve and reject, salary create and update,
\* settings update, and user create, update and delete.
C27_ErrorsLeaveStore ==
    \A u \in Callers :
        /\ \A t \in Times :
              /\ \A o \in CheckInOutcomes(u, t) :
                    o.code \in ErrorCodes => NoWrite(o)
              /\ \A o \in CheckOutOutcomes(u, t) :
                    o.code \in ErrorCodes => NoWrite(o)
              /\ \A rid \in CorrectionIdArgs :
                    /\ \A o \in ApproveOutcomes(u, rid, t) :
                          o.code \in ErrorCodes => NoWrite(o)
                    /\ \A in \in RejectPayloads :
                       \A o \in RejectOutcomes(u, rid, in, t) :
                          o.code \in ErrorCodes => NoWrite(o)
        /\ \A in \in ManualPayloads :
           \A o \in ManualOutcomes(u, in) : o.code \in ErrorCodes => NoWrite(o)
        /\ \A in \in CorrectionPayloads :
           \A o \in CreateCorrectionOutcomes(u, in) :
              o.code \in ErrorCodes => NoWrite(o)
        /\ \A in \in SalaryPayloads :
              CreateSalaryOutcome(u, in).code \in ErrorCodes
              => CreateSalaryOutcome(u, in).salary_structures = salary_structures
        /\ \A sid \in StructureIdArgs, body \in SalaryUpdateBodies :
           \A o \in UpdateSalaryOutcomes(u, sid, body) :
              o.code \in ErrorCodes => o.salary_structures = salary_structures
        /\ \A body \in SettingsUpdateBodies :
           \A o \in UpdateSettingsOutcomes(u, body) :
              o.code \in ErrorCodes => NoUserWrite(o)
        /\ \A in \in UserCreateBodies :
              CreateUserOutcome(u, in).code \in ErrorCodes
              => NoUserWrite(CreateUserOutcome(u, in))
        /\ \A uid \in UserIdArgs :
              /\ \A body \in UserUpdateBodies :
                 \A o \in UpdateUserOutcomes(u, uid, body) :
                    o.code \in ErrorCodes => NoUserWrite(o)
              /\ DeleteUserStore(u, uid).code \in ErrorCodes
                 => NoStoreWrite(DeleteUserStore(u, uid))

\* A day on which requests are refused as conflicts: the employee has
\* checked out, has a salary structure, and the request has been reviewed.
C27_Witness ==
    /\ \E u \in users, t \in Times :
          \E o \in CheckInOutcomes(u, t) : o.code = 400
    /\ \E u \in users, in \in SalaryPayloads :
          CreateSalaryOutcome(u, in).code = 400
    /\ \E u \in users, rid \in CorrectionIdArgs, t \in Times :
          \E o \in ApproveOutcomes(u, rid, t) : o.code = 400
    /\ \E u \in users, uid \in UserIdArgs : DeleteUserStore(u, uid).code = 404

----------------------------------------------------------------------------
(* Roles *)

\* The users of the table us who hold a privileged role, with that role.
PrivilegedOf(us) == {<<x.id, x.role>> : x \in {y \in us : y.role \in Privileged}}

\* C28: no request issued without an admin's token produces a user with
\* role admin or hr_officer: neither self-registration nor an update of
\* one's own user record by a caller who is not an admin, nor any other
\* user request of such a caller, adds a privileged user.
C28_NoPrivilegeEscalation ==
    /\ \A in \in UserCreateBodies :
          PrivilegedOf(RegisterOutcome(in).users) \subseteq PrivilegedOf(users)
    /\ \A u \in users :
          u.role # "admin" =>
             /\ \A in \in UserCreateBodies :
                   PrivilegedOf(CreateUserOutcome(u, in).users)
                      \subseteq PrivilegedOf(users)
             /\ \A uid \in UserIdArgs, body \in UserUpdateBodies :
                \A o \in UpdateUserOutcomes(u, uid, body) :
                   PrivilegedOf(o.users) \subseteq PrivilegedOf(users)

----------------------------------------------------------------------------
(* Reviews served concurrently: approve and reject each read the request   *)
(* in their own database session and commit later.  The commit is an       *)
(* UPDATE by primary key of the columns the handler assigned.              *)

\* The staff of the reviews: the admin, an employee with a profile, and an
\* HR officer.
ReviewStaff ==
    {[id |-> 1, email |-> "admin@example.com", role |-> "admin",
      is_active |-> TRUE, hashed_password |-> Hash("adminpassword")],
     [id |-> 2, email |-> "a@x.com", role |-> "employee",
      is_active |-> TRUE, hashed_password |-> Hash("password")],
     [id |-> 3, email |-> "hr@x.com", role |-> "hr_officer",
      is_active |-> TRUE, hashed_password |-> Hash("password")]}

InitReview ==
    /\ users = ReviewStaff
    /\ profiles = SoloProfiles
    /\ attendances = {}
    /\ corrections = {}
    /\ today = 1
    /\ sessions = [s \in Slots |-> Idle]
    /\ settings = {DefaultSettings(u.id, u.id) : u \in ReviewStaff}
    /\ activity_logs = {}
    /\ salary_structures = {}
    /\ pc = "off"
    /\ token = None
    /\ trail = << >>

\* approve and reject up to the check of the status (lines 58-63, 90-95):
\* the request is read; one that is not pending ends the request with 400.
BeginReview(s, u, rid, op, in) ==
    /\ sessions[s] = Idle
    /\ HasRole(u, Privileged)
    /\ \E r \in CorrectionById(rid), t \in Times :
          /\ Reviewable(r)
          /\ sessions' = [sessions EXCEPT ![s] =
                [op |-> op, r |-> r, reviewer |-> u, at |-> t, in |-> in]]
    /\ UNCHANGED <<users, profiles, salary_structures, attendances, corrections,
                   today, settings, activity_logs, client>>

\* approve from its writes to its commit (lines 65-77): the request row
\* takes the decision, and the attendance row the times of the request as
\* this session read it.
CommitApprove(s) ==
    /\ sessions[s].op = "approve"
    /\ corrections' =
          {IF r.id = sessions[s].r.id
           THEN ApprovedRow(r, sessions[s].reviewer, sessions[s].at)
           ELSE r : r \in corrections}
    /\ attendances' = ApplyCorrection(attendances, sessions[s].r)
    /\ sessions' = [sessions EXCEPT ![s] = Idle]
    /\ UNCHANGED <<users, profiles, salary_structures, today, settings,
                   activity_logs, client>>

\* reject from its writes to its commit (lines 97-104).  A comment of null
\* is the value the session read and is not part of the UPDATE.
CommitReject(s) ==
    /\ sessions[s].op = "reject"
    /\ corrections' =
          {IF r.id = sessions[s].r.id
           THEN RejectedRow(r, sessions[s].reviewer, sessions[s].at,
                    IF sessions[s].in.reviewer_comments = None
                    THEN [reviewer_comments |-> r.reviewer_comments]
                    ELSE sessions[s].in)
           ELSE r : r \in corrections}
    /\ sessions' = [sessions EXCEPT ![s] = Idle]
    /\ UNCHANGED <<users, profiles, salary_structures, attendances, today,
                   settings, activity_logs, client>>

NextReviewConc ==
    \/ \E u \in users : CheckIn(u)
    \/ \E u \in users, in \in CorrectionPayloads : CreateCorrection(u, in)
    \/ \E s \in Slots, u \in users, rid \in CorrectionIdArgs :
          BeginReview(s, u, rid, "approve", None)
    \/ \E s \in Slots, u \in users, rid \in CorrectionIdArgs, in \in RejectPayloads :
          BeginReview(s, u, rid, "reject", in)
    \/ \E s \in Slots : CommitApprove(s)
    \/ \E s \in Slots : CommitReject(s)

SpecReviewConc == InitReview /\ [][NextReviewConc]_vars

\* Has a request for the attendance row of r been approved?
ApprovedFor(r) ==
    \E q \in corrections : q.attendance_id = r.attendance_id /\ q.status = "approved"

\* C29: when an approve and a reject of the same pending request have both
\* read it before either commits, exactly one decision takes effect: once
\* both have committed, a request marked rejected has not had its requested
\* times copied onto the attendance record.  Check-in is the only other
\* writer here, so a check-out time can only come from an approval.
C29_OneDecisionTakesEffect ==
    (\A s \in Slots : sessions[s] = Idle)
    => \A r \in corrections :
          r.status = "rejected" /\ ~ApprovedFor(r)
          => \A a \in AttendanceById(r.attendance_id) : a.check_out_time = None

----------------------------------------------------------------------------
(* The default day of the listings *)

\* C30: GET /attendance/daily without a day, and GET /attendance/weekly
\* without day_in_week, use the calendar date at the time of the request:
\* they answer as the same call with today's date does, on the day the
\* process started and on every later day.
C30_DefaultDayIsToday ==
    \A u \in Callers :
        /\ DailyOutcome(u, None) = DailyOutcome(u, Some(today))
        /\ WeeklyOutcome(u, None) = WeeklyOutcome(u, Some(today))

====
